---- MODULE Spec2Model ----
(***************************************************************************)
(* State-machine model of the message-queueing pipeline:                   *)
(*   - PriorityMessageQueue          (src/priority_queue.py)               *)
(*   - BatchQueue, processor thread  (src/ChatServer1/models/batch_queue)  *)
(*   - BatchQueue, timer based       (src/batch_queue.py)                  *)
(*   - RetryQueue, two deques        (src/ChatServer1/models/retry_queue)  *)
(*   - RetryQueue, status based      (src/retry_queue.py)                  *)
(*   - OfflineQueue                  (src/ChatServer1/models/offline_queue)*)
(* Each component has its own variables, actions and specification; the    *)
(* other components' variables stay at their constructed values.           *)
(***************************************************************************)
EXTENDS Integers, Sequences, FiniteSets, TLC

VARIABLES
    \* PriorityMessageQueue
    priority_queue,     \* the heapq list of items [priority, counter]
    message_counter,    \* self.message_counter
    history,                \* self.history, oldest first
    pq_ret,             \* what the last get_next_message / peek_next_message returned
    pq_op,              \* the last operation performed on the queue
    pq_drained,         \* items returned by get_next_message since the last add_message
    \* OfflineQueue
    max_messages_per_user,  \* self.max_messages_per_user
    message_expiry,         \* self.message_expiry_seconds
    auto_cleanup_interval,  \* self.auto_cleanup_interval
    user_queues,            \* username -> deque: [items, maxlen]
    message_metadata,       \* the message ids that are keys of self.message_metadata
    oq_stats,               \* self.stats
    oq_running,             \* self.running
    oq_lock,                \* holder of self.lock (threading.Lock), 0 when free
    oq_pc,                  \* per thread: the call it is in and where it stands
    oq_ret,                 \* per thread: what its last completed call returned
    oq_now,                 \* time.time()
    \* BatchQueue of ChatServer1 (processor thread)
    min_batch_size,         \* self.min_batch_size
    max_batch_size,         \* self.max_batch_size
    max_wait_time,          \* self.max_wait_time, in clock ticks
    message_queue,          \* self.message_queue (deque of messages)
    current_batch,          \* self.current_batch
    batch_start_time,       \* self.batch_start_time, CBNone for None
    cb_stats,               \* self.stats
    cb_running,             \* self.running
    cb_pc,                  \* where the processor thread stands
    cb_local,               \* the processor's locals: should_send, send_reason, batch_data
    cb_caller,              \* the thread inside force_send_batch or stop: its position and locals
    cb_sent,                \* the batches handed to self.callback so far, in order
    cb_next,                \* number of messages accepted by add_message so far
    cb_now,                 \* time.time()
    \* BatchQueue of src/batch_queue.py (timer threads)
    bq_min_batch_size,      \* self.min_batch_size
    bq_max_batch_size,      \* self.max_batch_size
    timeout_seconds,        \* self.timeout_seconds, in clock ticks
    pending_messages,       \* self.pending_messages
    batch_timer,            \* self.batch_timer: index in bq_timers, BQNoTimer for None
    bq_timers,              \* the threading.Timer objects created so far: [state, due]
    bq_stats,               \* self.stats
    bq_sent,                \* the batches handed to self.send_callback so far, in order
    bq_next,                \* number of messages accepted by enqueue so far
    bq_ret,                 \* what the last completed call returned
    bq_now,                 \* time.time()
    \* RetryQueue of ChatServer1 (processor thread)
    max_retries,            \* self.max_retries
    initial_delay,          \* self.initial_delay, in clock ticks
    max_delay,              \* self.max_delay, in clock ticks
    backoff_multiplier,     \* self.backoff_multiplier
    retry_deque,            \* self.retry_deque (indexes of entries)
    waiting_deque,          \* self.waiting_deque (indexes of entries)
    cr_entries,             \* the retry entries created so far, with the number of times
                            \* each was reported as succeeded / permanently failed
    cr_stats,               \* self.stats
    cr_running,             \* self.running
    cr_pc,                  \* where the processor thread stands
    cr_entry,               \* the processor's local "entry", CRUnbound before assignment
    cr_current_time,        \* the processor's local current_time
    cr_now,                 \* time.time()
    cr_cleared,             \* clear_queue(clear_waiting=True) has returned and no
                            \* add_failed_message has been called since
    cr_lock,                \* self.lock: CRFree, or the call that holds it
    \* RetryQueue of src/retry_queue.py (worker thread)
    rq_max_retries,         \* self.max_retries
    base_delay,             \* self.base_delay, in clock ticks
    rq_max_delay,           \* self.max_delay, in clock ticks
    cleanup_interval,       \* self.cleanup_interval, in clock ticks
    retry_queue,            \* self.retry_queue (indexes of messages), leftmost first
    completed_messages,     \* self.completed_messages (indexes of messages)
    rq_msgs,                \* the RetryMessage objects created so far, with the number of
                            \* attempts the worker has finished on each
    rq_stats,               \* self.stats
    rq_stop,                \* self.stop_worker is set
    rq_pc,                  \* where the worker thread stands
    rq_ready,               \* the worker's ready_messages still to attempt
    rq_success,             \* the outcome of the worker's last callback invocation
    rq_now,                  \* time.time()
    \* Ingress handlers
    in_queues,          \* src/app.py: message_queue.queues, one deque per priority
    in_message_counter, \* src/app.py: message_queue.message_counter
    in_organized,       \* src/app.py: the last 'message_organization' broadcast
    in_user_id,         \* ChatSocketHandlers: the sid of the client's last connection
    in_connected,       \* that sid is in connected_users
    in_spam_count,      \* connected_users[user_id]["spam_count"]
    in_priority_queue,  \* message_system.priority_queue, the heap list
    in_counter,         \* message_system.message_counter
    in_app_pc,          \* src/app.py: where each thread's handle_message call stands
    in_pc,              \* where each on_send_message or broadcast_system_message call stands
    in_out,             \* the last 'new_message' emitted
    \* ChatServer1/app.py: the queues as handle_message and the callbacks use them
    ap_next,            \* number of messages handle_message has accepted
    ap_processed,       \* batch_queue.stats['total_messages_processed']
    ap_message_queue,   \* batch_queue.message_queue
    ap_current_batch,   \* batch_queue.current_batch
    ap_retry_queue,     \* the copies given to retry_queue.add_failed_message, not finished
    ap_display,         \* display_queue.display_queues, one deque per priority
    ap_message_counter, \* display_queue.message_counter
    ap_pc,              \* where each thread's handle_message call stands
    ap_hung,            \* the messages whose handle_message call does not return
    ap_id,              \* the "id" of each message dict, APNoId when it has none
    ap_run,             \* where the batch processor and the force_send_batch call stand
    ap_clear,           \* where the clear_display call in progress stands
    ap_clears           \* number of clear_display calls made

pqVars == <<priority_queue, message_counter, history, pq_ret, pq_op, pq_drained>>

oqVars == <<max_messages_per_user, message_expiry, auto_cleanup_interval, user_queues, message_metadata,
            oq_stats, oq_running, oq_lock, oq_pc, oq_ret, oq_now>>

cbVars == <<min_batch_size, max_batch_size, max_wait_time, message_queue, current_batch,
            batch_start_time, cb_stats, cb_running, cb_pc, cb_local, cb_caller, cb_sent, cb_next,
            cb_now>>

bqVars == <<bq_min_batch_size, bq_max_batch_size, timeout_seconds, pending_messages,
            batch_timer, bq_timers, bq_stats, bq_sent, bq_next, bq_ret, bq_now>>

crVars == <<max_retries, initial_delay, max_delay, backoff_multiplier, retry_deque,
            waiting_deque, cr_entries, cr_stats, cr_running, cr_pc, cr_entry, cr_current_time,
            cr_now, cr_cleared, cr_lock>>

rqVars == <<rq_max_retries, base_delay, rq_max_delay, cleanup_interval, retry_queue,
            completed_messages, rq_msgs, rq_stats, rq_stop, rq_pc, rq_ready, rq_success,
            rq_now>>

inVars == <<in_queues, in_message_counter, in_organized, in_app_pc, in_user_id, in_connected,
            in_spam_count, in_priority_queue, in_counter, in_pc, in_out>>

apVars == <<ap_next, ap_processed, ap_message_queue, ap_current_batch, ap_retry_queue, ap_display,
            ap_message_counter, ap_id, ap_pc, ap_hung, ap_run, ap_clear, ap_clears>>

vars == <<pqVars, oqVars, cbVars, bqVars, crVars, rqVars, inVars, apVars>>

\* What the actions of one component leave alone: the other components.
pqOthers == <<oqVars, cbVars, bqVars, crVars, rqVars, inVars, apVars>>

oqOthers == <<pqVars, cbVars, bqVars, crVars, rqVars, inVars, apVars>>

cbOthers == <<pqVars, oqVars, bqVars, crVars, rqVars, inVars, apVars>>

bqOthers == <<pqVars, oqVars, cbVars, crVars, rqVars, inVars, apVars>>

crOthers == <<pqVars, oqVars, cbVars, bqVars, rqVars, inVars, apVars>>

rqOthers == <<pqVars, oqVars, cbVars, bqVars, crVars, inVars, apVars>>

inOthers == <<pqVars, oqVars, cbVars, bqVars, crVars, rqVars, apVars>>

apOthers == <<pqVars, oqVars, cbVars, bqVars, crVars, rqVars, inVars>>

(***************************************************************************)
(* Helpers on sequences                                                    *)
(***************************************************************************)
NoMessage == [priority |-> 0, counter |-> 0]

SeqToSet(s) == {s[i] : i \in DOMAIN s}

(***************************************************************************)
(* PriorityMessageQueue (src/priority_queue.py)                            *)
(***************************************************************************)
\* Bound on the number of add_message / create_offline_message calls.
MaxAdds == 5

Priorities == 1..4

\* A key that drops the insertion counter: ties are then left to the heap.
HeapKeyNoCounter(item) == <<item.priority, 0>>

\* The tuple pushed on the heap: (priority, self.message_counter, message_obj).
HeapKey(item) == <<item.priority, item.counter>>

\* Python tuple comparison a < b on the first two components.
TupleLess(a, b) == \/ a[1] < b[1]
                   \/ a[1] = b[1] /\ a[2] < b[2]

ItemLess(x, y) == TupleLess(HeapKey(x), HeapKey(y))

\* heapq._siftdown(heap, startpos, pos) with newitem carried along; positions
\* are 1-based here, so the parent of pos is pos \div 2.
RECURSIVE SiftDown(_, _, _, _)
SiftDown(heap, startpos, pos, newitem) ==
    IF pos > startpos /\ ItemLess(newitem, heap[pos \div 2])
    THEN SiftDown([heap EXCEPT ![pos] = heap[pos \div 2]], startpos, pos \div 2, newitem)
    ELSE [heap EXCEPT ![pos] = newitem]

\* heapq._siftup(heap, pos): move the smaller child up until a leaf is hit,
\* then sift the new item down into place.
RECURSIVE SiftUp(_, _, _, _)
SiftUp(heap, startpos, pos, newitem) ==
    LET childpos == 2 * pos
        rightpos == childpos + 1
        child == IF rightpos <= Len(heap) /\ ~ItemLess(heap[childpos], heap[rightpos])
                 THEN rightpos ELSE childpos
    IN IF childpos <= Len(heap)
       THEN SiftUp([heap EXCEPT ![pos] = heap[child]], startpos, child, newitem)
       ELSE SiftDown(heap, startpos, pos, newitem)

\* max_history_size of the constructor
PQMaxHistory == 10

\* CircularQueue.enqueue: the history keeps its last max_size entries
CircularEnqueue(h, item) ==
    IF Len(h) < PQMaxHistory THEN Append(h, item)
    ELSE Append(Tail(h), item)

\* heapq.heappush(heap, item)
HeapPush(heap, item) == SiftDown(Append(heap, item), 1, Len(heap) + 1, item)

\* heapq.heappop(heap): the pair <<returned item, heap afterwards>>
HeapPop(heap) ==
    LET lastelt == heap[Len(heap)]
        rest == SubSeq(heap, 1, Len(heap) - 1)
    IN IF rest = <<>> THEN <<lastelt, rest>>
       ELSE <<rest[1], SiftUp(rest, 1, 1, lastelt)>>

PQ_add_message(manual_priority) ==
    /\ message_counter < MaxAdds
    /\ message_counter' = message_counter + 1
    /\ priority_queue' = HeapPush(priority_queue,
           [priority |-> manual_priority, counter |-> message_counter + 1])
    /\ history' = CircularEnqueue(history,
           [priority |-> manual_priority, counter |-> message_counter + 1])
    /\ pq_ret' = NoMessage
    /\ pq_op' = "add_message"
    /\ pq_drained' = <<>>
    /\ UNCHANGED pqOthers

PQ_get_next_message ==
    /\ IF priority_queue = <<>>
       THEN /\ pq_ret' = NoMessage
            /\ UNCHANGED <<priority_queue, pq_drained>>
       ELSE /\ pq_ret' = HeapPop(priority_queue)[1]
            /\ priority_queue' = HeapPop(priority_queue)[2]
            /\ pq_drained' = Append(pq_drained, HeapPop(priority_queue)[1])
    /\ pq_op' = "get_next_message"
    /\ UNCHANGED <<message_counter, history>>
    /\ UNCHANGED pqOthers

\* A peek that looks at the end of the heap list instead of its root.
PQ_peek_next_messageLast ==
    /\ pq_ret' = IF priority_queue = <<>> THEN NoMessage
                 ELSE priority_queue[Len(priority_queue)]
    /\ pq_op' = "peek_next_message"
    /\ UNCHANGED <<priority_queue, message_counter, history, pq_drained>>
    /\ UNCHANGED pqOthers

PQ_peek_next_message ==
    /\ pq_ret' = IF priority_queue = <<>> THEN NoMessage ELSE priority_queue[1]
    /\ pq_op' = "peek_next_message"
    /\ UNCHANGED <<priority_queue, message_counter, history, pq_drained>>
    /\ UNCHANGED pqOthers

PQ_clear_queue ==
    /\ priority_queue' = <<>>
    /\ pq_ret' = NoMessage
    /\ pq_op' = "clear_queue"
    /\ pq_drained' = <<>>
    /\ UNCHANGED <<message_counter, history>>
    /\ UNCHANGED pqOthers

PQ_clear_all ==
    /\ priority_queue' = <<>>
    /\ message_counter' = 0
    /\ history' = <<>>
    /\ pq_ret' = NoMessage
    /\ pq_op' = "clear_all"
    /\ pq_drained' = <<>>
    /\ UNCHANGED pqOthers

\* A create_offline_message that numbers its message with the current counter.
PQ_create_offline_messageNoCount ==
    /\ message_counter < MaxAdds
    /\ pq_ret' = NoMessage
    /\ pq_op' = "create_offline_message"
    /\ UNCHANGED <<priority_queue, message_counter, history, pq_drained>>
    /\ UNCHANGED pqOthers

PQ_create_offline_message ==
    /\ message_counter < MaxAdds
    /\ message_counter' = message_counter + 1
    /\ pq_ret' = NoMessage
    /\ pq_op' = "create_offline_message"
    /\ UNCHANGED <<priority_queue, history, pq_drained>>
    /\ UNCHANGED pqOthers

PQInit ==
    /\ priority_queue = <<>>
    /\ message_counter = 0
    /\ history = <<>>
    /\ pq_ret = NoMessage
    /\ pq_op = "init"
    /\ pq_drained = <<>>

PQNext ==
    \/ \E p \in Priorities : PQ_add_message(p)
    \/ PQ_get_next_message
    \/ PQ_peek_next_message
    \/ PQ_clear_queue
    \/ PQ_clear_all
    \/ PQ_create_offline_message


(***************************************************************************)
(* OfflineQueue (src/ChatServer1/models/offline_queue.py)                  *)
(*                                                                         *)
(* self.lock is a threading.Lock: it is not reentrant.  A method body      *)
(* that runs between acquiring and releasing it is one step; a thread that *)
(* has called a method and finds the lock taken waits at "lock".           *)
(* _update_user_stats acquires self.lock again and all its call sites hold *)
(* the lock already: the calling thread then stands at                     *)
(* "update_user_stats" with the lock in its hands, and no step of any      *)
(* thread can ever release it.  get_offline_message_count (the definition  *)
(* in effect, lines 573-593) and handle_user_online take no lock: they are *)
(* followed line by line.                                                  *)
(***************************************************************************)
\* Bounds of the OfflineQueue model.
OQMaxTime == 1

OQUsers == {"alice"}

OQMessages == {"m1", "m2"}

\* A message argument that is no dict: message.copy() of line 94 raises.
OQNoDict == "None"

\* Values of max_messages_per_user given to update_config.
OQCapacities == {2}

\* Values of max_messages_per_user given to the constructor.
OQConstructorCapacities == {0, 1}

\* Values of limit given to peek_user_messages.
OQLimits == {1}

OQCallers == {1, 2}

OQCleaner == 3

OQThreads == OQCallers \cup {OQCleaner}

\* A parameter that is not given (None).
OQNone == -1

\* The value standing for "RuntimeError: deque mutated during iteration".
OQRuntimeError == -2

\* Values of message_expiry_hours and auto_cleanup_interval given to update_config.
OQExpiryHours == {0}

OQIntervals == {0}

\* user, msg, online, n, current_time, total_expired: the arguments and locals
\* of the call; mutated: the deque object the thread iterates over was changed
\* since iter(); replaced: that object is no longer the one user_queues holds
\* for the user (the key was deleted or given another deque).
OQIdle == [op |-> "idle", at |-> "idle", user |-> "", msg |-> "", online |-> FALSE, n |-> 0,
           current_time |-> 0, total_expired |-> 0, mutated |-> FALSE, replaced |-> FALSE]

OQNoReturn == [op |-> "none", value |-> <<>>]

\* deque(maxlen=n)
NewDeque(n) == [items |-> <<>>, maxlen |-> n]

\* An append that never discards: a plain list instead of a bounded deque.
DequeAppendUnbounded(q, x) == [q EXCEPT !.items = Append(q.items, x)]

\* deque.append on a deque with maxlen: one item is discarded from the left
\* when the deque is full.
DequeAppend(q, x) ==
    IF q.maxlen = 0 THEN q
    ELSE IF Len(q.items) >= q.maxlen
         THEN [q EXCEPT !.items = Append(Tail(q.items), x)]
         ELSE [q EXCEPT !.items = Append(q.items, x)]

\* deque(iterable, maxlen=n): the last n items are kept.
DequeFrom(items, n) ==
    [items |-> IF Len(items) > n THEN SubSeq(items, Len(items) - n + 1, Len(items)) ELSE items,
     maxlen |-> n]

\* self.user_queues[username] on the defaultdict: the deque, created if absent.
QueueOf(queues, u) ==
    IF u \in DOMAIN queues THEN queues[u] ELSE NewDeque(max_messages_per_user)

\* dict with key u set to q (the other keys kept).
WithQueue(queues, u, q) ==
    [k \in (DOMAIN queues) \cup {u} |-> IF k = u THEN q ELSE queues[k]]

\* dict with the keys of gone deleted.
WithoutQueues(queues, gone) == [k \in (DOMAIN queues) \ gone |-> queues[k]]

RECURSIVE SelectSeqBy(_, _, _)
\* the items of s, in order, whose expiry test equals keep
SelectSeqBy(s, now, keep) ==
    IF s = <<>> THEN <<>>
    ELSE IF (now <= s[1].expiry_timestamp) = keep
         THEN <<s[1]>> \o SelectSeqBy(Tail(s), now, keep)
         ELSE SelectSeqBy(Tail(s), now, keep)

\* entries whose expiry has not passed: not (time.time() > expiry_timestamp)
NotExpired(items, now) == SelectSeqBy(items, now, TRUE)

\* entries past expiry
Expired(items, now) == SelectSeqBy(items, now, FALSE)

EntryIds(items) == {items[i].message_id : i \in DOMAIN items}

\* the message handed to the recipient for a stored entry
MessageForDelivery(entry) ==
    [text |-> entry.original_message, offline_message_id |-> entry.message_id,
     offline_delivery |-> TRUE]

DeliveredMessages(items) == [i \in DOMAIN items |-> MessageForDelivery(items[i])]

\* the entry built by store_message_for_user
OfflineMessage(u, m, now) ==
    [message_id |-> <<u, now, Len(QueueOf(user_queues, u).items)>>,
     target_username |-> u,
     stored_timestamp |-> now,
     expiry_timestamp |-> now + message_expiry,
     delivery_attempts |-> 0,
     is_delivered |-> FALSE,
     original_message |-> m]

OQSetPc(t, rec) == oq_pc' = [oq_pc EXCEPT ![t] = rec]

\* The deques user_queues holds for users are changed in place (append,
\* popleft, clear): the threads standing in the for loop of
\* get_offline_message_count with an iterator of one of these deque objects
\* see it mutated (deque iterators raise RuntimeError at the next item once
\* the deque has changed). An iterator of a deque that user_queues no longer
\* holds is not touched.
OQMutate(users) ==
    [t \in OQThreads |->
        IF oq_pc[t].at = "line590" /\ oq_pc[t].user \in users /\ ~oq_pc[t].replaced
        THEN [oq_pc[t] EXCEPT !.mutated = TRUE] ELSE oq_pc[t]]

\* The keys of users are deleted from user_queues or given a new deque
\* object: the iterators of the threads of pc keep the old objects.
OQReplace(pc, users) ==
    [t \in OQThreads |->
        IF pc[t].at = "line590" /\ pc[t].user \in users
        THEN [pc[t] EXCEPT !.replaced = TRUE] ELSE pc[t]]

OQNonEmpty == {u \in DOMAIN user_queues : user_queues[u].items # <<>>}

\* Thread t returns value from op and releases the lock, having taken the
\* deques of the users of replaced out of user_queues.
OQReturnReplacing(t, op, value, replaced) ==
    /\ oq_pc' = [OQReplace(oq_pc, replaced) EXCEPT ![t] = OQIdle]
    /\ oq_ret' = [oq_ret EXCEPT ![t] = [op |-> op, value |-> value]]
    /\ oq_lock' = 0

OQReturn(t, op, value) == OQReturnReplacing(t, op, value, {})

\* _update_user_stats as it would be with a reentrant lock: the caller goes
\* on and returns.
OQEnterUpdateUserStatsReentrant(t, mutated, replaced) ==
    /\ oq_pc' = [OQReplace(OQMutate(mutated), replaced) EXCEPT ![t] = OQIdle]
    /\ oq_ret' = [oq_ret EXCEPT ![t] = [op |-> oq_pc[t].op, value |-> <<>>]]
    /\ oq_lock' = 0

\* _update_user_stats called by thread t, which holds self.lock: its
\* "with self.lock" can never be entered. Before the call the thread has
\* changed the deques of the users of mutated in place and then taken the
\* deques of the users of replaced out of user_queues.
OQEnterUpdateUserStats(t, mutated, replaced) ==
    /\ oq_pc' = [OQReplace(OQMutate(mutated), replaced) EXCEPT ![t].at = "update_user_stats"]
    /\ oq_lock' = t
    /\ UNCHANGED oq_ret

OQMethods == {"store_message_for_user", "deliver_offline_messages", "clear_user_messages",
              "peek_user_messages", "update_config", "clear_all_messages", "force_cleanup"}

\* A caller thread starts a call of one of methods and reaches the method's
\* "with self.lock".
OQ_CallOf(t, methods) ==
    /\ t \in OQCallers
    /\ oq_pc[t].op = "idle"
    /\ \E op \in methods,
          u \in OQUsers \cup {""}, m \in OQMessages \cup {OQNoDict, ""}, online \in BOOLEAN,
          n \in OQLimits \cup {0} :
          \* the arguments a method does not take are left at a fixed value
          /\ m = "" <=> op # "store_message_for_user"
          /\ op # "deliver_offline_messages" => online = FALSE
          /\ u = "" <=> op \in {"update_config", "clear_all_messages", "force_cleanup"}
          /\ n # 0 <=> op = "peek_user_messages"
          /\ OQSetPc(t, [OQIdle EXCEPT !.op = op, !.at = "lock", !.user = u, !.msg = m,
                                       !.online = online, !.n = n])
    /\ oq_ret' = [oq_ret EXCEPT ![t] = OQNoReturn]
    /\ UNCHANGED <<max_messages_per_user, message_expiry, auto_cleanup_interval, user_queues, message_metadata,
                   oq_stats, oq_running, oq_lock, oq_now>>
    /\ UNCHANGED oqOthers

OQ_Call(t) == OQ_CallOf(t, OQMethods)

\* store_message_for_user, lines 85-96: the lock is taken and the entry is
\* built; len(self.user_queues[username]) creates the recipient's deque when
\* there is none (user_queues is a defaultdict). n keeps the time read. For
\* a message that is no dict, message.copy() raises at line 94: the handler
\* of lines 117-119 returns False (0 here) and the lock is released.
OQ_store_message_for_user(t) ==
    /\ oq_pc[t].op = "store_message_for_user" /\ oq_pc[t].at = "lock"
    /\ oq_lock = 0
    /\ user_queues' = WithQueue(user_queues, oq_pc[t].user, QueueOf(user_queues, oq_pc[t].user))
    /\ IF oq_pc[t].msg = OQNoDict
       THEN OQReturn(t, "store_message_for_user", 0)
       ELSE /\ oq_lock' = t
            /\ oq_pc' = [oq_pc EXCEPT ![t].at = "line98", ![t].n = oq_now]
            /\ UNCHANGED oq_ret
    /\ UNCHANGED <<max_messages_per_user, message_expiry, auto_cleanup_interval,
                   message_metadata, oq_stats, oq_running, oq_now>>
    /\ UNCHANGED oqOthers

\* store_message_for_user, lines 98-111: append, metadata, statistics and the
\* call of _update_user_stats.
OQ_store_message_for_user_line98(t) ==
    /\ oq_pc[t].op = "store_message_for_user" /\ oq_pc[t].at = "line98"
    /\ LET u == oq_pc[t].user
           offline_message == OfflineMessage(u, oq_pc[t].msg, oq_pc[t].n)
       IN /\ user_queues' = WithQueue(user_queues, u,
                                DequeAppend(QueueOf(user_queues, u), offline_message))
          /\ message_metadata' = message_metadata \cup {offline_message.message_id}
          /\ oq_stats' = [oq_stats EXCEPT !.total_messages_stored = @ + 1]
          /\ OQEnterUpdateUserStats(t, {u}, {})
    /\ UNCHANGED <<max_messages_per_user, message_expiry, auto_cleanup_interval, oq_running, oq_now>>
    /\ UNCHANGED oqOthers

\* UserManager.set_user_online(username, socket_id) for a registered user
\* (user_manager.py 211-228): handle_user_online is called with the
\* UserManager itself and starts with get_offline_message_count, which takes
\* no lock (line 531, then 583).
OQ_set_user_online(t) ==
    /\ t \in OQCallers
    /\ oq_pc[t].op = "idle"
    /\ \E u \in OQUsers :
         OQSetPc(t, [OQIdle EXCEPT !.op = "set_user_online", !.at = "line583",
                                   !.user = u, !.online = TRUE])
    /\ oq_ret' = [oq_ret EXCEPT ![t] = OQNoReturn]
    /\ UNCHANGED <<max_messages_per_user, message_expiry, auto_cleanup_interval, user_queues, message_metadata,
                   oq_stats, oq_running, oq_lock, oq_now>>
    /\ UNCHANGED oqOthers

\* deliver_offline_messages(username, user_manager). The online test of line
\* 162 is written for a user_manager whose users are dicts; the users of a
\* UserManager are User objects, without a get method: the AttributeError is
\* caught at line 236 and the call returns [].
OQ_deliver_offline_messages(t) ==
    /\ oq_pc[t].op \in {"deliver_offline_messages", "set_user_online"}
    /\ oq_pc[t].at = "lock"
    /\ oq_lock = 0
    /\ LET u == oq_pc[t].user
       IN IF u \notin DOMAIN user_queues \/ user_queues[u].items = <<>>
          THEN /\ OQReturn(t, oq_pc[t].op, <<>>)
               /\ UNCHANGED <<user_queues, message_metadata, oq_stats>>
          ELSE IF oq_pc[t].op = "set_user_online" \/ ~oq_pc[t].online
          THEN /\ OQReturn(t, oq_pc[t].op, <<>>)
               /\ UNCHANGED <<user_queues, message_metadata, oq_stats>>
          ELSE LET items == user_queues[u].items
                   expired == Expired(items, oq_now)
                   delivered == NotExpired(items, oq_now)
               IN /\ user_queues' = [user_queues EXCEPT ![u].items = <<>>]
                  /\ message_metadata' = message_metadata \ EntryIds(expired)
                  /\ oq_stats' = [oq_stats EXCEPT
                         !.total_messages_expired = @ + Len(expired),
                         !.total_messages_delivered = @ + Len(delivered)]
                  /\ OQEnterUpdateUserStats(t, {u}, {})
    /\ UNCHANGED <<max_messages_per_user, message_expiry, auto_cleanup_interval, oq_running, oq_now>>
    /\ UNCHANGED oqOthers

OQ_clear_user_messages(t) ==
    /\ oq_pc[t].op = "clear_user_messages" /\ oq_pc[t].at = "lock"
    /\ oq_lock = 0
    /\ LET u == oq_pc[t].user
       IN IF u \notin DOMAIN user_queues
          THEN /\ OQReturn(t, "clear_user_messages", 0)
               /\ UNCHANGED <<user_queues, message_metadata>>
          ELSE /\ message_metadata' = message_metadata \ EntryIds(user_queues[u].items)
               /\ user_queues' = WithoutQueues(user_queues, {u})
               /\ OQEnterUpdateUserStats(t, {u} \cap OQNonEmpty, {u})
    /\ UNCHANGED <<max_messages_per_user, message_expiry, auto_cleanup_interval, oq_stats, oq_running, oq_now>>
    /\ UNCHANGED oqOthers

\* peek_user_messages, lines 304-319: [] for a user without a deque, else the
\* entries among list(queue)[:limit] that have not expired.
OQPreviews(u, limit) ==
    IF u \notin DOMAIN user_queues
    THEN <<>>
    ELSE LET items == user_queues[u].items
             first == SubSeq(items, 1, IF Len(items) < limit THEN Len(items) ELSE limit)
         IN NotExpired(first, oq_now)

\* peek_user_messages without the membership test of line 304: the lookup
\* creates the recipient's deque.
OQ_peek_user_messagesNoTest(t) ==
    /\ oq_pc[t].op = "peek_user_messages" /\ oq_pc[t].at = "lock"
    /\ oq_lock = 0
    /\ user_queues' = WithQueue(user_queues, oq_pc[t].user, QueueOf(user_queues, oq_pc[t].user))
    /\ OQReturn(t, "peek_user_messages", OQPreviews(oq_pc[t].user, oq_pc[t].n))
    /\ UNCHANGED <<max_messages_per_user, message_expiry, auto_cleanup_interval, message_metadata,
                   oq_stats, oq_running, oq_now>>
    /\ UNCHANGED oqOthers

OQ_peek_user_messages(t) ==
    /\ oq_pc[t].op = "peek_user_messages" /\ oq_pc[t].at = "lock"
    /\ oq_lock = 0
    /\ OQReturn(t, "peek_user_messages", OQPreviews(oq_pc[t].user, oq_pc[t].n))
    /\ UNCHANGED <<max_messages_per_user, message_expiry, auto_cleanup_interval, user_queues, message_metadata,
                   oq_stats, oq_running, oq_now>>
    /\ UNCHANGED oqOthers

\* max(10, max_messages_per_user)
OQMinCapacity == 10

\* max(1, message_expiry_hours) * 3600
OQSecondsPerHour == 3600

\* max(60, auto_cleanup_interval)
OQMinInterval == 60

OQ_update_config(t) ==
    /\ oq_pc[t].op = "update_config" /\ oq_pc[t].at = "lock"
    /\ oq_lock = 0
    /\ \E n \in OQCapacities \cup {OQNone}, hours \in OQExpiryHours \cup {OQNone},
          interval \in OQIntervals \cup {OQNone} :
       LET new_max == IF n > OQMinCapacity THEN n ELSE OQMinCapacity
       IN /\ IF n # OQNone
             THEN /\ max_messages_per_user' = new_max
                  /\ user_queues' = [u \in DOMAIN user_queues |->
                                        DequeFrom(user_queues[u].items, new_max)]
                  /\ OQReturnReplacing(t, "update_config", 0, DOMAIN user_queues)
             ELSE /\ UNCHANGED <<max_messages_per_user, user_queues>>
                  /\ OQReturn(t, "update_config", 0)
          /\ message_expiry' = IF hours # OQNone
                               THEN (IF hours > 1 THEN hours ELSE 1) * OQSecondsPerHour
                               ELSE message_expiry
          /\ auto_cleanup_interval' = IF interval # OQNone
                                      THEN (IF interval > OQMinInterval THEN interval
                                            ELSE OQMinInterval)
                                      ELSE auto_cleanup_interval
    /\ UNCHANGED <<message_metadata, oq_stats, oq_running, oq_now>>
    /\ UNCHANGED oqOthers

OQ_clear_all_messages(t) ==
    /\ oq_pc[t].op = "clear_all_messages" /\ oq_pc[t].at = "lock"
    /\ oq_lock = 0
    /\ user_queues' = <<>>
    /\ message_metadata' = {}
    /\ oq_stats' = [oq_stats EXCEPT !.users_with_offline_messages = 0]
    /\ OQReturnReplacing(t, "clear_all_messages", 0, DOMAIN user_queues)
    /\ UNCHANGED <<max_messages_per_user, message_expiry, auto_cleanup_interval, oq_running, oq_now>>
    /\ UNCHANGED oqOthers

\* The effective get_offline_message_count is the second definition of that
\* name: it reads the backlog without taking the lock. A caller starts it.
OQ_get_offline_message_count(t) ==
    /\ t \in OQCallers
    /\ oq_pc[t].op = "idle"
    /\ \E u \in OQUsers :
          OQSetPc(t, [OQIdle EXCEPT !.op = "get_offline_message_count",
                                    !.at = "line583", !.user = u])
    /\ oq_ret' = [oq_ret EXCEPT ![t] = OQNoReturn]
    /\ UNCHANGED <<max_messages_per_user, message_expiry, auto_cleanup_interval, user_queues, message_metadata,
                   oq_stats, oq_running, oq_lock, oq_now>>
    /\ UNCHANGED oqOthers

OQCounting(t) == oq_pc[t].op \in {"get_offline_message_count", "set_user_online"}

\* What handle_user_online does with the count (lines 533-539): None for 0,
\* otherwise deliver_offline_messages is called and its "with self.lock" of
\* line 157 is reached. An exception of the count leaves handle_user_online
\* and is caught by set_user_online (user_manager.py 230-231).
OQCounted(t, value) ==
    IF oq_pc[t].op = "get_offline_message_count"
    THEN /\ oq_pc' = [oq_pc EXCEPT ![t] = OQIdle]
         /\ oq_ret' = [oq_ret EXCEPT ![t] = [op |-> "get_offline_message_count",
                                              value |-> value]]
    ELSE IF value \in {0, OQRuntimeError}
    THEN /\ oq_pc' = [oq_pc EXCEPT ![t] = OQIdle]
         /\ oq_ret' = [oq_ret EXCEPT ![t] = [op |-> "set_user_online", value |-> <<>>]]
    ELSE /\ oq_pc' = [oq_pc EXCEPT ![t].at = "lock", ![t].n = value]
         /\ UNCHANGED oq_ret

\* Line 583: the membership test.
OQ_get_offline_message_count_line583(t) ==
    /\ OQCounting(t) /\ oq_pc[t].at = "line583"
    /\ IF oq_pc[t].user \in DOMAIN user_queues
       THEN /\ oq_pc' = [oq_pc EXCEPT ![t].at = "line586"]
            /\ UNCHANGED oq_ret
       ELSE OQCounted(t, 0)
    /\ UNCHANGED <<max_messages_per_user, message_expiry, auto_cleanup_interval, user_queues, message_metadata,
                   oq_stats, oq_running, oq_lock, oq_now>>
    /\ UNCHANGED oqOthers

\* Line 586: current_time = time.time().
OQ_get_offline_message_count_line586(t) ==
    /\ OQCounting(t) /\ oq_pc[t].at = "line586"
    /\ oq_pc' = [oq_pc EXCEPT ![t].at = "line589", ![t].current_time = oq_now]
    /\ UNCHANGED <<max_messages_per_user, message_expiry, auto_cleanup_interval, user_queues, message_metadata,
                   oq_stats, oq_running, oq_lock, oq_ret, oq_now>>
    /\ UNCHANGED oqOthers

\* Line 589: self.user_queues[username] is looked up (the defaultdict creates
\* an empty deque for a key that has gone) and the for loop takes an iterator
\* of the deque; n is the number of its entries that have not expired at
\* current_time.
OQ_get_offline_message_count_line589(t) ==
    /\ OQCounting(t) /\ oq_pc[t].at = "line589"
    /\ LET u == oq_pc[t].user
       IN /\ user_queues' = WithQueue(user_queues, u, QueueOf(user_queues, u))
          /\ oq_pc' = [oq_pc EXCEPT ![t].at = "line590",
                                    ![t].n = Len(NotExpired(QueueOf(user_queues, u).items,
                                                            oq_pc[t].current_time))]
    /\ UNCHANGED <<max_messages_per_user, message_expiry, auto_cleanup_interval,
                   message_metadata, oq_stats, oq_running, oq_lock, oq_ret, oq_now>>
    /\ UNCHANGED oqOthers

\* Lines 589-593: the loop runs to its end and the count is returned, or the
\* iterator finds its deque mutated and RuntimeError leaves the method.
OQ_get_offline_message_count_line590(t) ==
    /\ OQCounting(t) /\ oq_pc[t].at = "line590"
    /\ OQCounted(t, IF oq_pc[t].mutated THEN OQRuntimeError ELSE oq_pc[t].n)
    /\ UNCHANGED <<max_messages_per_user, message_expiry, auto_cleanup_interval, user_queues, message_metadata,
                   oq_stats, oq_running, oq_lock, oq_now>>
    /\ UNCHANGED oqOthers

\* force_cleanup, line 503: get_queue_status() before the sweep; n keeps
\* total_pending_messages.
OQTotalPending == Cardinality({<<u, i>> \in OQUsers \X (1..OQMinCapacity) :
                                 u \in DOMAIN user_queues /\ i <= Len(user_queues[u].items)})

OQ_force_cleanup(t) ==
    /\ oq_pc[t].op = "force_cleanup" /\ oq_pc[t].at = "lock"
    /\ oq_lock = 0
    /\ oq_pc' = [oq_pc EXCEPT ![t].at = "line504", ![t].n = OQTotalPending]
    /\ UNCHANGED <<max_messages_per_user, message_expiry, auto_cleanup_interval, user_queues, message_metadata,
                   oq_stats, oq_running, oq_lock, oq_ret, oq_now>>
    /\ UNCHANGED oqOthers

\* force_cleanup, lines 505-516: get_queue_status() after the sweep; the
\* result's messages_expired is returned.
OQ_force_cleanup_line505(t) ==
    /\ oq_pc[t].op = "force_cleanup" /\ oq_pc[t].at = "line505"
    /\ oq_lock = 0
    /\ OQReturn(t, "force_cleanup", oq_pc[t].n - OQTotalPending)
    /\ UNCHANGED <<max_messages_per_user, message_expiry, auto_cleanup_interval, user_queues, message_metadata,
                   oq_stats, oq_running, oq_now>>
    /\ UNCHANGED oqOthers

\* _cleanup_processor: after its sleep the cleanup thread either leaves the
\* loop (self.running is False) or calls _cleanup_expired_messages.
OQ_cleanup_processor ==
    /\ oq_pc[OQCleaner].op = "idle"
    /\ IF oq_running
       THEN OQSetPc(OQCleaner, [OQIdle EXCEPT !.op = "_cleanup_expired_messages", !.at = "lock"])
       ELSE OQSetPc(OQCleaner, [OQIdle EXCEPT !.op = "exited", !.at = "exited"])
    /\ UNCHANGED <<max_messages_per_user, message_expiry, auto_cleanup_interval, user_queues, message_metadata,
                   oq_stats, oq_running, oq_lock, oq_ret, oq_now>>
    /\ UNCHANGED oqOthers

\* _cleanup_expired_messages, run by the cleanup thread or, through
\* force_cleanup (line 504), by the calling thread. Lines 380-417: the lock
\* is taken, the time is read, the expired entries leave their deques and
\* the metadata, and the users left without an entry are deleted.
OQ_cleanup_expired_messages(t) ==
    /\ \/ oq_pc[t].op = "_cleanup_expired_messages" /\ oq_pc[t].at = "lock"
       \/ oq_pc[t].op = "force_cleanup" /\ oq_pc[t].at = "line504"
    /\ oq_lock = 0
    /\ oq_lock' = t
    /\ LET remaining == [u \in DOMAIN user_queues |->
                            DequeFrom(NotExpired(user_queues[u].items, oq_now),
                                      max_messages_per_user)]
           gone == UNION {EntryIds(Expired(user_queues[u].items, oq_now)) :
                          u \in DOMAIN user_queues}
           empty_users == {u \in DOMAIN user_queues : remaining[u].items = <<>>}
       IN /\ user_queues' = WithoutQueues(remaining, empty_users)
          /\ message_metadata' = message_metadata \ gone
          /\ oq_pc' = [OQReplace(OQMutate(OQNonEmpty), DOMAIN user_queues)
                           EXCEPT ![t].at = "line420", ![t].current_time = oq_now,
                                  ![t].total_expired = Cardinality(gone)]
    /\ UNCHANGED <<max_messages_per_user, message_expiry, auto_cleanup_interval, oq_stats,
                   oq_running, oq_ret, oq_now>>
    /\ UNCHANGED oqOthers

\* _cleanup_expired_messages, lines 420-428: with entries removed the
\* statistics are updated and _update_user_stats is called; otherwise the
\* lock is released and the method returns (to line 505 in force_cleanup).
OQ_cleanup_expired_messages_line420(t) ==
    /\ oq_pc[t].op \in {"_cleanup_expired_messages", "force_cleanup"}
    /\ oq_pc[t].at = "line420"
    /\ IF oq_pc[t].total_expired > 0
       THEN /\ oq_stats' = [oq_stats EXCEPT
                   !.total_messages_expired = @ + oq_pc[t].total_expired,
                   !.total_cleanup_runs = @ + 1]
            /\ OQEnterUpdateUserStats(t, {}, {})
       ELSE /\ IF oq_pc[t].op = "force_cleanup"
               THEN /\ oq_pc' = [oq_pc EXCEPT ![t].at = "line505"]
                    /\ UNCHANGED oq_ret
               ELSE /\ oq_pc' = [oq_pc EXCEPT ![t] = OQIdle]
                    /\ oq_ret' = [oq_ret EXCEPT ![t] =
                                    [op |-> "_cleanup_expired_messages", value |-> 0]]
            /\ oq_lock' = 0
            /\ UNCHANGED oq_stats
    /\ UNCHANGED <<max_messages_per_user, message_expiry, auto_cleanup_interval, user_queues,
                   message_metadata, oq_running, oq_now>>
    /\ UNCHANGED oqOthers

OQ_stop ==
    /\ oq_running
    /\ oq_running' = FALSE
    /\ UNCHANGED <<max_messages_per_user, message_expiry, auto_cleanup_interval, user_queues, message_metadata,
                   oq_stats, oq_lock, oq_pc, oq_ret, oq_now>>
    /\ UNCHANGED oqOthers

OQ_Tick ==
    /\ oq_now < OQMaxTime
    /\ oq_now' = oq_now + 1
    /\ UNCHANGED <<max_messages_per_user, message_expiry, auto_cleanup_interval, user_queues, message_metadata,
                   oq_stats, oq_running, oq_lock, oq_pc, oq_ret>>
    /\ UNCHANGED oqOthers

\* The state after OfflineQueue(max_messages_per_user=n, ...), lines 40-65.
OQConstructed(n) ==
    /\ max_messages_per_user = n
    /\ message_expiry = 1
    /\ auto_cleanup_interval = 300
    /\ user_queues = <<>>
    /\ message_metadata = {}
    /\ oq_stats = [total_messages_stored |-> 0, total_messages_delivered |-> 0,
                   total_messages_expired |-> 0, total_cleanup_runs |-> 0,
                   users_with_offline_messages |-> 0]
    /\ oq_running = TRUE
    /\ oq_lock = 0
    /\ oq_pc = [t \in OQThreads |-> OQIdle]
    /\ oq_ret = [t \in OQThreads |-> OQNoReturn]
    /\ oq_now = 0

OQInit == OQConstructed(1)

OQNext ==
    \/ \E t \in OQCallers : OQ_Call(t)
    \/ \E t \in OQCallers : OQ_store_message_for_user(t)
    \/ \E t \in OQCallers : OQ_store_message_for_user_line98(t)
    \/ \E t \in OQCallers : OQ_set_user_online(t)
    \/ \E t \in OQCallers : OQ_deliver_offline_messages(t)
    \/ \E t \in OQCallers : OQ_clear_user_messages(t)
    \/ \E t \in OQCallers : OQ_peek_user_messages(t)
    \/ \E t \in OQCallers : OQ_update_config(t)
    \/ \E t \in OQCallers : OQ_clear_all_messages(t)
    \/ \E t \in OQCallers : OQ_get_offline_message_count(t)
    \/ \E t \in OQCallers : OQ_get_offline_message_count_line583(t)
    \/ \E t \in OQCallers : OQ_get_offline_message_count_line586(t)
    \/ \E t \in OQCallers : OQ_get_offline_message_count_line589(t)
    \/ \E t \in OQCallers : OQ_get_offline_message_count_line590(t)
    \/ \E t \in OQCallers : OQ_force_cleanup(t)
    \/ \E t \in OQCallers : OQ_force_cleanup_line505(t)
    \/ OQ_cleanup_processor
    \/ \E t \in OQThreads : OQ_cleanup_expired_messages(t)
    \/ \E t \in OQThreads : OQ_cleanup_expired_messages_line420(t)
    \/ OQ_stop
    \/ OQ_Tick

(***************************************************************************)
(* BatchQueue of ChatServer1 (src/ChatServer1/models/batch_queue.py)       *)
(*                                                                         *)
(* The callers' methods run wholly inside "with self.lock" and are one     *)
(* step each.  The processor thread holds the lock only for lines 104-135  *)
(* of its loop (one step); the test at line 137 and the whole of           *)
(* _send_batch run without the lock, so each of their reads and writes of  *)
(* self.current_batch and self.batch_start_time is a step of its own that  *)
(* the callers' methods can run between.                                   *)
(***************************************************************************)
\* Bounds of the BatchQueue model.
CBMaxMsgs == 2

CBMaxTime == 2

\* Bound on the number of callback invocations that raise.
CBMaxRaises == 1

\* self.batch_start_time = None
CBNone == -1

\* Values given to update_config (CBNone: the parameter is not given).
CBSizes == {0, 3}

CBWaits == {1}

CBNoLocal == [should_send |-> FALSE, send_reason |-> "", messages |-> <<>>,
              batch_size |-> 0, has_start |-> FALSE]

\* How many invocations of the callback have raised so far.
RECURSIVE CBRaises(_)
CBRaises(sent) ==
    IF sent = <<>> THEN 0
    ELSE (IF Head(sent).raised THEN 1 ELSE 0) + CBRaises(Tail(sent))

\* The outcomes an invocation of the callback can have: it raises or not.
CBOutcomes == IF CBRaises(cb_sent) < CBMaxRaises THEN BOOLEAN ELSE {FALSE}

\* batch_data as the callback receives it; raised tells whether that
\* invocation of the callback raised.
CBBatch(messages, size, reason, raised) ==
    [messages |-> messages, batch_size |-> size, send_reason |-> reason, raised |-> raised]

\* A processor that looks at the timeouts of the current batch on every pass,
\* also when no new message has arrived.
CBNothingToDoChecksBatch == message_queue = <<>> /\ current_batch = <<>>

\* Line 106: "if not self.message_queue: time.sleep(0.1); continue".
CBNothingToDo == message_queue = <<>>

\* Lines 115-117: move messages from the queue into the current batch.
RECURSIVE CBMove(_, _, _)
CBMove(queue, batch, max) ==
    IF queue # <<>> /\ Len(batch) < max
    THEN CBMove(Tail(queue), Append(batch, Head(queue)), max)
    ELSE <<queue, batch>>

\* A decision that does not extend the wait of a batch below min_batch_size.
CBShouldSendNoExtension(batch, start, now) ==
    IF Len(batch) >= max_batch_size THEN <<TRUE, "max_size_reached">>
    ELSE IF batch # <<>> /\ start # CBNone /\ now - start >= max_wait_time
         THEN <<TRUE, "max_wait_time_reached">>
    ELSE <<FALSE, "">>

\* Lines 120-135: <<should_send, send_reason>>.
CBShouldSend(batch, start, now) ==
    IF Len(batch) >= max_batch_size THEN <<TRUE, "max_size_reached">>
    ELSE IF Len(batch) >= min_batch_size
         THEN IF now - start >= max_wait_time
              THEN <<TRUE, "max_wait_time_reached">> ELSE <<FALSE, "">>
    ELSE IF batch # <<>> /\ start # CBNone
         THEN IF now - start >= max_wait_time * 2
              THEN <<TRUE, "extended_wait_timeout">> ELSE <<FALSE, "">>
    ELSE <<FALSE, "">>

\* The thread inside force_send_batch holds self.lock from its test of line
\* 198 until it leaves the method.
CBCallerIdle == [op |-> "idle", at |-> "idle", messages |-> <<>>, batch_size |-> 0,
                 has_start |-> FALSE]

CBLocked == cb_caller.at \in {"line201", "line202", "line205", "line211", "line213"}

CB_add_message ==
    /\ ~CBLocked
    /\ cb_next < CBMaxMsgs
    /\ cb_next' = cb_next + 1
    /\ message_queue' = Append(message_queue, cb_next + 1)
    /\ cb_stats' = [cb_stats EXCEPT !.total_messages_processed = @ + 1]
    /\ UNCHANGED <<min_batch_size, max_batch_size, max_wait_time, current_batch,
                   batch_start_time, cb_running, cb_pc, cb_local, cb_sent, cb_now>>
    /\ UNCHANGED cb_caller
    /\ UNCHANGED cbOthers

\* Line 102, without the lock: "while self.running".
CB_batch_processor ==
    /\ cb_pc = "loop"
    /\ cb_pc' = IF cb_running THEN "line104" ELSE "exited"
    /\ UNCHANGED <<min_batch_size, max_batch_size, max_wait_time, message_queue, current_batch,
                   batch_start_time, cb_stats, cb_running, cb_local, cb_sent, cb_next, cb_now>>
    /\ UNCHANGED cb_caller
    /\ UNCHANGED cbOthers

\* with self.lock: lines 104-135
CB_batch_processor_locked ==
    /\ cb_pc = "line104"
    /\ ~CBLocked
    /\ IF CBNothingToDo
       THEN /\ cb_pc' = "loop"
            /\ UNCHANGED <<message_queue, current_batch, batch_start_time, cb_local>>
       ELSE LET start == IF current_batch = <<>> THEN cb_now ELSE batch_start_time
                moved == CBMove(message_queue, current_batch, max_batch_size)
                decision == CBShouldSend(moved[2], start, cb_now)
            IN /\ batch_start_time' = start
               /\ message_queue' = moved[1]
               /\ current_batch' = moved[2]
               /\ cb_local' = [CBNoLocal EXCEPT !.should_send = decision[1],
                                               !.send_reason = decision[2]]
               /\ cb_pc' = "line137"
    /\ UNCHANGED <<min_batch_size, max_batch_size, max_wait_time, cb_stats, cb_running,
                   cb_sent, cb_next, cb_now>>
    /\ UNCHANGED cb_caller
    /\ UNCHANGED cbOthers

\* Line 137, outside the lock: "if should_send and self.current_batch".
CB_batch_processor_line137 ==
    /\ cb_pc = "line137"
    /\ cb_pc' = IF cb_local.should_send /\ current_batch # <<>> THEN "line153" ELSE "loop"
    /\ UNCHANGED <<min_batch_size, max_batch_size, max_wait_time, message_queue, current_batch,
                   batch_start_time, cb_stats, cb_running, cb_local, cb_sent, cb_next, cb_now>>
    /\ UNCHANGED cb_caller
    /\ UNCHANGED cbOthers

\* _send_batch line 153: "if not self.current_batch: return".
CB_send_batch_line153 ==
    /\ cb_pc = "line153"
    /\ cb_pc' = IF current_batch = <<>> THEN "loop" ELSE "line158"
    /\ UNCHANGED <<min_batch_size, max_batch_size, max_wait_time, message_queue, current_batch,
                   batch_start_time, cb_stats, cb_running, cb_local, cb_sent, cb_next, cb_now>>
    /\ UNCHANGED cb_caller
    /\ UNCHANGED cbOthers

\* _send_batch line 158: 'messages': self.current_batch.copy().
CB_send_batch_line158 ==
    /\ cb_pc = "line158"
    /\ cb_local' = [cb_local EXCEPT !.messages = current_batch]
    /\ cb_pc' = "line159"
    /\ UNCHANGED <<min_batch_size, max_batch_size, max_wait_time, message_queue, current_batch,
                   batch_start_time, cb_stats, cb_running, cb_sent, cb_next, cb_now>>
    /\ UNCHANGED cb_caller
    /\ UNCHANGED cbOthers

\* _send_batch lines 159-162: 'batch_size': len(self.current_batch) and the
\* test "if self.batch_start_time" of the wait_time expression.
CB_send_batch_line159 ==
    /\ cb_pc = "line159"
    /\ cb_local' = [cb_local EXCEPT !.batch_size = Len(current_batch),
                                    !.has_start = (batch_start_time # CBNone)]
    /\ cb_pc' = "line162"
    /\ UNCHANGED <<min_batch_size, max_batch_size, max_wait_time, message_queue, current_batch,
                   batch_start_time, cb_stats, cb_running, cb_sent, cb_next, cb_now>>
    /\ UNCHANGED cb_caller
    /\ UNCHANGED cbOthers

\* _send_batch line 162: time.time() - self.batch_start_time, a TypeError when
\* the start time was reset to None after the test; the processor's handler
\* (lines 142-144) catches it and the loop goes on.
CB_send_batch_line162 ==
    /\ cb_pc = "line162"
    /\ cb_pc' = IF cb_local.has_start /\ batch_start_time = CBNone THEN "loop" ELSE "line166"
    /\ UNCHANGED <<min_batch_size, max_batch_size, max_wait_time, message_queue, current_batch,
                   batch_start_time, cb_stats, cb_running, cb_local, cb_sent, cb_next, cb_now>>
    /\ UNCHANGED cb_caller
    /\ UNCHANGED cbOthers

\* _send_batch lines 166-177, without the lock: the statistics of the batch
\* are written before the callback is called.
CB_send_batch_line166 ==
    /\ cb_pc = "line166"
    /\ cb_stats' = [cb_stats EXCEPT
           !.total_batches_sent = @ + 1,
           !.average_batch_size =
               ((cb_stats.total_batches_sent + 1) * cb_local.batch_size)
                   \div (cb_stats.total_batches_sent + 1)]
    /\ cb_pc' = "line180"
    /\ UNCHANGED <<min_batch_size, max_batch_size, max_wait_time, message_queue, current_batch,
                   batch_start_time, cb_running, cb_local, cb_sent, cb_next, cb_now>>
    /\ UNCHANGED cb_caller
    /\ UNCHANGED cbOthers

\* _send_batch lines 180-184: the callback; an exception of the callback is
\* caught.
CB_send_batch_callback ==
    /\ cb_pc = "line180"
    /\ \E raised \in CBOutcomes :
          cb_sent' = Append(cb_sent, CBBatch(cb_local.messages, cb_local.batch_size,
                                             cb_local.send_reason, raised))
    /\ cb_pc' = "line187"
    /\ UNCHANGED <<min_batch_size, max_batch_size, max_wait_time, message_queue, current_batch,
                   batch_start_time, cb_stats, cb_running, cb_local, cb_next, cb_now>>
    /\ UNCHANGED cb_caller
    /\ UNCHANGED cbOthers

\* _send_batch line 187, without the lock: self.current_batch = [].
CB_send_batch_line187 ==
    /\ cb_pc = "line187"
    /\ current_batch' = <<>>
    /\ cb_pc' = "line188"
    /\ UNCHANGED <<min_batch_size, max_batch_size, max_wait_time, message_queue,
                   batch_start_time, cb_stats, cb_running, cb_local, cb_sent, cb_next, cb_now>>
    /\ UNCHANGED cb_caller
    /\ UNCHANGED cbOthers

\* _send_batch line 188, without the lock: self.batch_start_time = None.
CB_send_batch_reset ==
    /\ cb_pc = "line188"
    /\ batch_start_time' = CBNone
    /\ cb_local' = CBNoLocal
    /\ cb_pc' = "loop"
    /\ UNCHANGED <<min_batch_size, max_batch_size, max_wait_time, message_queue, current_batch,
                   cb_stats, cb_running, cb_sent, cb_next, cb_now>>
    /\ UNCHANGED cb_caller
    /\ UNCHANGED cbOthers

\* A call of force_send_batch: the caller reaches "with self.lock" (line 197).
CB_force_send_batch ==
    /\ cb_caller.at = "idle"
    /\ cb_caller' = [CBCallerIdle EXCEPT !.op = "force_send_batch", !.at = "line197"]
    /\ UNCHANGED <<min_batch_size, max_batch_size, max_wait_time, message_queue, current_batch,
                   batch_start_time, cb_stats, cb_running, cb_pc, cb_local, cb_sent, cb_next,
                   cb_now>>
    /\ UNCHANGED cbOthers

\* Lines 197-198: the lock is taken and "if self.current_batch" is tested.
CB_force_send_batch_line197 ==
    /\ cb_caller.at = "line197"
    /\ cb_caller' = IF current_batch # <<>> THEN [cb_caller EXCEPT !.at = "line201"]
                    ELSE CBCallerIdle
    /\ UNCHANGED <<min_batch_size, max_batch_size, max_wait_time, message_queue, current_batch,
                   batch_start_time, cb_stats, cb_running, cb_pc, cb_local, cb_sent, cb_next,
                   cb_now>>
    /\ UNCHANGED cbOthers

\* Line 201: 'messages': self.current_batch.copy().
CB_force_send_batch_line201 ==
    /\ cb_caller.at = "line201"
    /\ cb_caller' = [cb_caller EXCEPT !.at = "line202", !.messages = current_batch]
    /\ UNCHANGED <<min_batch_size, max_batch_size, max_wait_time, message_queue, current_batch,
                   batch_start_time, cb_stats, cb_running, cb_pc, cb_local, cb_sent, cb_next,
                   cb_now>>
    /\ UNCHANGED cbOthers

\* Lines 202-205: 'batch_size': len(self.current_batch) and the test "if
\* self.batch_start_time" of the wait_time expression.
CB_force_send_batch_line202 ==
    /\ cb_caller.at = "line202"
    /\ cb_caller' = [cb_caller EXCEPT !.at = "line205", !.batch_size = Len(current_batch),
                                      !.has_start = (batch_start_time # CBNone)]
    /\ UNCHANGED <<min_batch_size, max_batch_size, max_wait_time, message_queue, current_batch,
                   batch_start_time, cb_stats, cb_running, cb_pc, cb_local, cb_sent, cb_next,
                   cb_now>>
    /\ UNCHANGED cbOthers

\* Line 205: time.time() - self.batch_start_time, a TypeError when the
\* processor's _send_batch reset the start time after the test; the
\* exception leaves force_send_batch.
CB_force_send_batch_line205 ==
    /\ cb_caller.at = "line205"
    /\ cb_caller' = IF cb_caller.has_start /\ batch_start_time = CBNone THEN CBCallerIdle
                    ELSE [cb_caller EXCEPT !.at = "line211"]
    /\ UNCHANGED <<min_batch_size, max_batch_size, max_wait_time, message_queue, current_batch,
                   batch_start_time, cb_stats, cb_running, cb_pc, cb_local, cb_sent, cb_next,
                   cb_now>>
    /\ UNCHANGED cbOthers

\* Lines 210-211: the callback is not guarded here; when it raises, the
\* exception leaves the method before the current batch is reset.
CB_force_send_batch_callback ==
    /\ cb_caller.at = "line211"
    /\ \E raised \in CBOutcomes :
          /\ cb_sent' = Append(cb_sent, CBBatch(cb_caller.messages, cb_caller.batch_size,
                                                "forced", raised))
          /\ cb_caller' = IF raised THEN CBCallerIdle ELSE [cb_caller EXCEPT !.at = "line213"]
    /\ UNCHANGED <<min_batch_size, max_batch_size, max_wait_time, message_queue, current_batch,
                   batch_start_time, cb_stats, cb_running, cb_pc, cb_local, cb_next, cb_now>>
    /\ UNCHANGED cbOthers

\* Lines 213-214: reset the current batch; the method returns.
CB_force_send_batch_reset ==
    /\ cb_caller.at = "line213"
    /\ current_batch' = <<>>
    /\ batch_start_time' = CBNone
    /\ cb_caller' = CBCallerIdle
    /\ UNCHANGED <<min_batch_size, max_batch_size, max_wait_time, message_queue,
                   cb_stats, cb_running, cb_pc, cb_local, cb_sent, cb_next, cb_now>>
    /\ UNCHANGED cbOthers

CB_clear_queue ==
    /\ ~CBLocked
    /\ message_queue' = <<>>
    /\ current_batch' = <<>>
    /\ batch_start_time' = CBNone
    /\ UNCHANGED <<min_batch_size, max_batch_size, max_wait_time,
                   cb_stats, cb_running, cb_pc, cb_local, cb_sent, cb_next, cb_now>>
    /\ UNCHANGED cb_caller
    /\ UNCHANGED cbOthers

\* update_config: each parameter is either given (a value) or None (0 here).
CB_update_config ==
    /\ ~CBLocked
    /\ \E mn \in CBSizes \cup {CBNone}, mx \in CBSizes \cup {CBNone}, w \in CBWaits \cup {0} :
          LET new_min == IF mn # CBNone THEN (IF mn > 1 THEN mn ELSE 1) ELSE min_batch_size
              new_max == IF mx # CBNone THEN (IF mx > new_min THEN mx ELSE new_min)
                         ELSE max_batch_size
          IN /\ min_batch_size' = new_min
             /\ max_batch_size' = new_max
             /\ max_wait_time' = IF w # 0 THEN w ELSE max_wait_time
    /\ UNCHANGED <<message_queue, current_batch, batch_start_time,
                   cb_stats, cb_running, cb_pc, cb_local, cb_sent, cb_next, cb_now>>
    /\ UNCHANGED cb_caller
    /\ UNCHANGED cbOthers

\* stop, line 277: self.running = False, written without the lock; the
\* caller then stands at the "with self.lock" of force_send_batch (line 280).
CB_stop ==
    /\ cb_running
    /\ cb_caller.at = "idle"
    /\ cb_running' = FALSE
    /\ cb_caller' = [CBCallerIdle EXCEPT !.op = "stop", !.at = "line197"]
    /\ UNCHANGED <<min_batch_size, max_batch_size, max_wait_time, message_queue, current_batch,
                   batch_start_time, cb_stats, cb_pc, cb_local, cb_sent, cb_next, cb_now>>
    /\ UNCHANGED cbOthers

CB_Tick ==
    /\ cb_now < CBMaxTime
    /\ cb_now' = cb_now + 1
    /\ UNCHANGED <<min_batch_size, max_batch_size, max_wait_time, message_queue, current_batch,
                   batch_start_time, cb_stats, cb_running, cb_pc, cb_local, cb_sent, cb_next>>
    /\ UNCHANGED cb_caller
    /\ UNCHANGED cbOthers

\* The constructor, with min_batch_size=2, max_batch_size=3, max_wait_time=1
\* standing for the deployed 5, 25 and 2 seconds.
CBInit ==
    /\ min_batch_size = 2
    /\ max_batch_size = 3
    /\ max_wait_time = 1
    /\ message_queue = <<>>
    /\ current_batch = <<>>
    /\ batch_start_time = CBNone
    /\ cb_stats = [total_messages_processed |-> 0, total_batches_sent |-> 0,
                   average_batch_size |-> 0]
    /\ cb_running = TRUE
    /\ cb_pc = "loop"
    /\ cb_local = CBNoLocal
    /\ cb_caller = CBCallerIdle
    /\ cb_sent = <<>>
    /\ cb_next = 0
    /\ cb_now = 0

\* The steps of the processor thread.
CBProcessor ==
    \/ CB_batch_processor
    \/ CB_batch_processor_locked
    \/ CB_batch_processor_line137
    \/ CB_send_batch_line153
    \/ CB_send_batch_line158
    \/ CB_send_batch_line159
    \/ CB_send_batch_line162
    \/ CB_send_batch_line166
    \/ CB_send_batch_callback
    \/ CB_send_batch_line187
    \/ CB_send_batch_reset

\* The steps of the thread inside force_send_batch or stop.
CBForceSendBatch ==
    \/ CB_force_send_batch
    \/ CB_force_send_batch_line197
    \/ CB_force_send_batch_line201
    \/ CB_force_send_batch_line202
    \/ CB_force_send_batch_line205
    \/ CB_force_send_batch_callback
    \/ CB_force_send_batch_reset

CBNext ==
    \/ CB_add_message
    \/ CBProcessor
    \/ CBForceSendBatch
    \/ CB_clear_queue
    \/ CB_update_config
    \/ CB_stop
    \/ CB_Tick

\* Producers, the processor thread and the clock only: no force_send_batch,
\* clear_queue, update_config or stop call.
CBQuietNext ==
    \/ CB_add_message
    \/ CBProcessor
    \/ CB_Tick

(***************************************************************************)
(* BatchQueue of src/batch_queue.py: batches released by size or by a      *)
(* threading.Timer started on the first message of a batch.                *)
(***************************************************************************)
BQMaxMsgs == 3

BQMaxTime == 3

\* self.batch_timer = None
BQNoTimer == 0

BQNoReturn == [op |-> "none", value |-> 0]

\* send_callback(batch, batch_size, trigger) returns or raises.
BQOutcomes == BOOLEAN

\* threading.Timer.cancel(): sets the timer's finished event, which stops a
\* timer that is still waiting; one whose function has been called goes on.
BQCancel(timers, k) ==
    IF k = BQNoTimer THEN timers
    ELSE [timers EXCEPT ![k].state = IF @ = "armed" THEN "cancelled" ELSE @]

\* _start_batch_timer: cancel the existing timer, start a new one.
BQStartTimer(timers, k, now, timeout) ==
    Append(BQCancel(timers, k), [state |-> "armed", due |-> now + timeout])

\* A _send_batch_now that leaves the timeout timer running.
BQSendBatchNowKeepsTimer(s, sent, trigger, raised, now) ==
    IF s.pending = <<>> THEN <<s, sent>>
    ELSE <<[s EXCEPT !.pending = <<>>,
                     !.stats = [s.stats EXCEPT !.total_batches_sent = @ + 1,
                                               !.messages_in_current_batch = 0]],
           Append(sent, [messages |-> s.pending, batch_size |-> Len(s.pending),
                         trigger |-> trigger, raised |-> raised, at |-> now])>>

\* _send_batch_now with the lock held, as the pair <<state after, sent after>>
\* for state = [pending, timer, timers, stats].
BQSendBatchNow(s, sent, trigger, raised, now) ==
    IF s.pending = <<>> THEN <<s, sent>>
    ELSE <<[pending |-> <<>>,
            timer   |-> BQNoTimer,
            timers  |-> BQCancel(s.timers, s.timer),
            stats   |-> [s.stats EXCEPT
                           !.total_batches_sent = @ + 1,
                           !.messages_in_current_batch = 0,
                           !.timeout_triggered_batches =
                               IF trigger = "timeout" THEN @ + 1 ELSE @,
                           !.size_triggered_batches =
                               IF trigger = "size_limit" THEN @ + 1 ELSE @]],
           Append(sent, [messages |-> s.pending, batch_size |-> Len(s.pending),
                         trigger |-> trigger, raised |-> raised, at |-> now])>>

BQState == [pending |-> pending_messages, timer |-> batch_timer,
            timers |-> bq_timers, stats |-> bq_stats]

BQSetState(r) ==
    /\ pending_messages' = r[1].pending
    /\ batch_timer' = r[1].timer
    /\ bq_timers' = r[1].timers
    /\ bq_stats' = r[1].stats
    /\ bq_sent' = r[2]

\* enqueue(message)
BQ_enqueue ==
    /\ bq_next < BQMaxMsgs
    /\ \E raised \in BQOutcomes :
         LET m == [id |-> bq_next + 1, batch_enqueue_time |-> bq_now]
             pending1 == Append(pending_messages, m)
             stats1 == [bq_stats EXCEPT !.total_messages_processed = @ + 1,
                                        !.messages_in_current_batch = Len(pending1)]
             s1 == [BQState EXCEPT !.pending = pending1, !.stats = stats1]
         IN  IF Len(pending1) >= bq_max_batch_size
             THEN BQSetState(BQSendBatchNow(s1, bq_sent, "size_limit", raised, bq_now))
             ELSE /\ raised = FALSE
                  /\ IF Len(pending1) = 1
                     THEN BQSetState(<<[s1 EXCEPT
                              !.timers = BQStartTimer(bq_timers, batch_timer, bq_now,
                                                      timeout_seconds),
                              !.timer = Len(bq_timers) + 1], bq_sent>>)
                     ELSE BQSetState(<<s1, bq_sent>>)
    /\ bq_next' = bq_next + 1
    /\ bq_ret' = [op |-> "enqueue", value |-> 1]
    /\ UNCHANGED <<bq_min_batch_size, bq_max_batch_size, timeout_seconds, bq_now>>
    /\ UNCHANGED bqOthers

\* The timer thread wakes up after its interval, finds its finished event
\* unset and calls _timeout_batch_send, which waits for the lock.
BQ_timer_fires(k) ==
    /\ bq_timers[k].state = "armed"
    /\ bq_now >= bq_timers[k].due
    /\ bq_timers' = [bq_timers EXCEPT ![k].state = "running"]
    /\ UNCHANGED <<bq_min_batch_size, bq_max_batch_size, timeout_seconds, pending_messages,
                   batch_timer, bq_stats, bq_sent, bq_next, bq_ret, bq_now>>
    /\ UNCHANGED bqOthers

\* _timeout_batch_send, with the lock.
BQ_timeout_batch_send(k) ==
    /\ bq_timers[k].state = "running"
    /\ \E raised \in BQOutcomes :
         IF pending_messages # <<>> /\ Len(pending_messages) >= bq_min_batch_size
         THEN LET r == BQSendBatchNow(BQState, bq_sent, "timeout", raised, bq_now)
              IN  BQSetState(<<[r[1] EXCEPT !.timers[k].state = "done"], r[2]>>)
         ELSE /\ raised = FALSE
              /\ BQSetState(<<[BQState EXCEPT !.timers[k].state = "done"], bq_sent>>)
    /\ UNCHANGED <<bq_min_batch_size, bq_max_batch_size, timeout_seconds, bq_next, bq_ret,
                   bq_now>>
    /\ UNCHANGED bqOthers

\* force_send_batch()
BQ_force_send_batch ==
    /\ \E raised \in BQOutcomes :
         /\ pending_messages = <<>> => raised = FALSE
         /\ BQSetState(BQSendBatchNow(BQState, bq_sent, "forced", raised, bq_now))
    /\ bq_ret' = [op |-> "force_send_batch", value |-> Len(pending_messages)]
    /\ UNCHANGED <<bq_min_batch_size, bq_max_batch_size, timeout_seconds, bq_next, bq_now>>
    /\ UNCHANGED bqOthers

\* clear()
BQ_clear ==
    /\ pending_messages' = <<>>
    /\ bq_timers' = BQCancel(bq_timers, batch_timer)
    /\ batch_timer' = BQNoTimer
    /\ bq_stats' = [bq_stats EXCEPT !.messages_in_current_batch = 0]
    /\ bq_ret' = [op |-> "clear", value |-> Len(pending_messages)]
    /\ UNCHANGED <<bq_min_batch_size, bq_max_batch_size, timeout_seconds, bq_sent, bq_next,
                   bq_now>>
    /\ UNCHANGED bqOthers

\* time.time() advances.
BQ_Tick ==
    /\ bq_now < BQMaxTime
    /\ bq_now' = bq_now + 1
    /\ UNCHANGED <<bq_min_batch_size, bq_max_batch_size, timeout_seconds, pending_messages,
                   batch_timer, bq_timers, bq_stats, bq_sent, bq_next, bq_ret>>
    /\ UNCHANGED bqOthers

BQInit ==
    /\ bq_min_batch_size = 2
    /\ bq_max_batch_size = 3
    /\ timeout_seconds = 1
    /\ pending_messages = <<>>
    /\ batch_timer = BQNoTimer
    /\ bq_timers = <<>>
    /\ bq_stats = [total_messages_processed |-> 0, total_batches_sent |-> 0,
                   messages_in_current_batch |-> 0, timeout_triggered_batches |-> 0,
                   size_triggered_batches |-> 0]
    /\ bq_sent = <<>>
    /\ bq_next = 0
    /\ bq_ret = BQNoReturn
    /\ bq_now = 0

\* The steps of the timer threads.
BQTimers ==
    \E k \in DOMAIN bq_timers : BQ_timer_fires(k) \/ BQ_timeout_batch_send(k)

BQNext ==
    \/ BQ_enqueue
    \/ \E k \in DOMAIN bq_timers : BQ_timer_fires(k)
    \/ \E k \in DOMAIN bq_timers : BQ_timeout_batch_send(k)
    \/ BQ_force_send_batch
    \/ BQ_clear
    \/ BQ_Tick

\* Producers, the timer threads and the clock only: no force_send_batch or
\* clear call.
BQQuietNext ==
    \/ BQ_enqueue
    \/ \E k \in DOMAIN bq_timers : BQ_timer_fires(k)
    \/ \E k \in DOMAIN bq_timers : BQ_timeout_batch_send(k)
    \/ BQ_Tick

(***************************************************************************)
(* RetryQueue of ChatServer1 (src/ChatServer1/models/retry_queue.py): a    *)
(* processor thread moves entries from waiting_deque to retry_deque when   *)
(* they are due and attempts them. Entries are dicts shared by reference:  *)
(* the deques and the processor's local hold indexes into cr_entries.      *)
(***************************************************************************)
CRMaxMsgs == 2

CRMaxTime == 2

\* Arguments of update_config; CRNone stands for an argument left at None.
CRNone == -1

CRRetries == {0}

CRDelays == {1}

CRMultipliers == {1}

\* max_delay given to update_config: the value the constructor was given.
CRMaxDelays == {2}

\* The processor's local "entry" before its first assignment.
CRUnbound == 0

\* self.lock, a threading.Lock, when no thread holds it. The public methods
\* and the processor's "with self.lock" blocks run wholly with the lock held
\* and are one step each, which a thread can take only when the lock is free.
CRFree == "free"

CRMax(a, b) == IF a >= b THEN a ELSE b

CRMin(a, b) == IF a <= b THEN a ELSE b

RECURSIVE CRPower(_, _)
CRPower(b, n) == IF n <= 0 THEN 1 ELSE b * CRPower(b, n - 1)

\* _calculate_backoff_delay
calculate_backoff_delay(retry_count) ==
    CRMin(initial_delay * CRPower(backoff_multiplier, retry_count - 1), max_delay)

\* The entries of a deque that are due at current_time, and the others.
CRReady(deque, current_time) ==
    SelectSeq(deque, LAMBDA i : current_time >= cr_entries[i].next_retry_time)

CRRemaining(deque, current_time) ==
    SelectSeq(deque, LAMBDA i : ~(current_time >= cr_entries[i].next_retry_time))

\* add_failed_message(message, error_reason)
CR_add_failed_message ==
    /\ cr_lock = CRFree
    /\ Len(cr_entries) < CRMaxMsgs
    /\ cr_entries' = Append(cr_entries,
                            [retry_count |-> 0, max_retries |-> max_retries,
                             next_retry_time |-> cr_now + initial_delay,
                             succeeded |-> 0, failed |-> 0])
    /\ waiting_deque' = Append(waiting_deque, Len(cr_entries) + 1)
    /\ cr_stats' = [cr_stats EXCEPT !.total_messages_added = @ + 1,
                                    !.current_waiting_size = Len(waiting_deque) + 1]
    /\ UNCHANGED <<max_retries, initial_delay, max_delay, backoff_multiplier, retry_deque,
                   cr_running, cr_pc, cr_entry, cr_current_time, cr_now>>
    /\ cr_cleared' = FALSE
    /\ UNCHANGED cr_lock
    /\ UNCHANGED crOthers

\* _retry_processor lines 121-124: "while self.running", current_time = time.time().
CR_retry_processor_line121 ==
    /\ cr_pc = "loop"
    /\ IF cr_running
       THEN cr_pc' = "line126" /\ cr_current_time' = cr_now
       ELSE cr_pc' = "stopped" /\ UNCHANGED cr_current_time
    /\ UNCHANGED <<max_retries, initial_delay, max_delay, backoff_multiplier, retry_deque,
                   waiting_deque, cr_entries, cr_stats, cr_running, cr_entry, cr_now>>
    /\ UNCHANGED cr_cleared
    /\ UNCHANGED cr_lock
    /\ UNCHANGED crOthers

\* _retry_processor lines 126-145, with the lock: the due entries go to
\* retry_deque. The loops leave the local "entry" at the last element they saw.
CR_retry_processor_locked ==
    /\ cr_pc = "line126"
    /\ cr_lock = CRFree
    /\ LET ready == CRReady(waiting_deque, cr_current_time)
           remaining == CRRemaining(waiting_deque, cr_current_time)
       IN  /\ waiting_deque' = remaining
           /\ retry_deque' = retry_deque \o ready
           /\ cr_entry' = IF ready # <<>> THEN ready[Len(ready)]
                          ELSE IF waiting_deque # <<>> THEN waiting_deque[Len(waiting_deque)]
                          ELSE cr_entry
           /\ cr_stats' = [cr_stats EXCEPT !.current_queue_size = Len(retry_deque \o ready),
                                           !.current_waiting_size = Len(remaining)]
    /\ cr_pc' = "line148"
    /\ UNCHANGED <<max_retries, initial_delay, max_delay, backoff_multiplier, cr_entries,
                   cr_running, cr_current_time, cr_now>>
    /\ UNCHANGED cr_cleared
    /\ UNCHANGED cr_lock
    /\ UNCHANGED crOthers

\* _retry_processor line 148: "if self.retry_deque:", without the lock.
CR_retry_processor_line148 ==
    /\ cr_pc = "line148"
    /\ cr_pc' = IF retry_deque # <<>> THEN "line149" ELSE "loop"
    /\ UNCHANGED <<max_retries, initial_delay, max_delay, backoff_multiplier, retry_deque,
                   waiting_deque, cr_entries, cr_stats, cr_running, cr_entry, cr_current_time, cr_now>>
    /\ UNCHANGED cr_cleared
    /\ UNCHANGED cr_lock
    /\ UNCHANGED crOthers

\* _retry_processor lines 149-151, with the lock: "if self.retry_deque:
\* entry = self.retry_deque.popleft()"; the local keeps its value otherwise.
CR_retry_processor_line149 ==
    /\ cr_pc = "line149"
    /\ cr_lock = CRFree
    /\ IF retry_deque # <<>>
       THEN cr_entry' = Head(retry_deque) /\ retry_deque' = Tail(retry_deque)
       ELSE UNCHANGED <<cr_entry, retry_deque>>
    /\ cr_pc' = "line153"
    /\ UNCHANGED <<max_retries, initial_delay, max_delay, backoff_multiplier, waiting_deque,
                   cr_entries, cr_stats, cr_running, cr_current_time, cr_now>>
    /\ UNCHANGED cr_cleared
    /\ UNCHANGED cr_lock
    /\ UNCHANGED crOthers

\* success_callback(retry_entry, retry_time) and failure_callback(retry_entry,
\* reason) return or raise.
CROutcomes == BOOLEAN

\* _retry_processor line 153 and _attempt_retry lines 169-187, without the
\* lock. Reading an unbound local raises UnboundLocalError, which the handler
\* of lines 157-159 catches. The attempt is counted in the entry and in the
\* statistics, then _simulate_message_delivery is entered (it sleeps 0.1 to
\* 0.3 s, line 268).
CR_attempt_retry ==
    /\ cr_pc = "line153"
    /\ IF cr_entry = CRUnbound
       THEN /\ cr_pc' = "loop"
            /\ UNCHANGED <<cr_entries, cr_stats>>
       ELSE /\ cr_entries' = [cr_entries EXCEPT ![cr_entry].retry_count = @ + 1]
            /\ cr_stats' = [cr_stats EXCEPT !.total_retries_attempted = @ + 1]
            /\ cr_pc' = "line187"
    /\ UNCHANGED <<max_retries, initial_delay, max_delay, backoff_multiplier, retry_deque,
                   waiting_deque, cr_running, cr_entry, cr_current_time, cr_now>>
    /\ UNCHANGED cr_cleared
    /\ UNCHANGED cr_lock
    /\ UNCHANGED crOthers

\* _attempt_retry lines 187-196, 205-207 and 216-217, without the lock: the
\* delivery succeeds or fails, and the outcome is written to the statistics
\* before the callback is called.
CR_attempt_retry_line187 ==
    /\ cr_pc = "line187"
    /\ \E retry_success \in BOOLEAN :
          LET e == cr_entry
              count == cr_entries[e].retry_count
          IN  IF retry_success
              THEN /\ cr_stats' = [cr_stats EXCEPT !.total_messages_succeeded = @ + 1]
                   /\ UNCHANGED cr_entries
                   /\ cr_pc' = "line198"
              ELSE IF count >= cr_entries[e].max_retries
              THEN /\ cr_stats' = [cr_stats EXCEPT !.total_messages_failed = @ + 1]
                   /\ UNCHANGED cr_entries
                   /\ cr_pc' = "line209"
              ELSE /\ cr_entries' = [cr_entries EXCEPT
                         ![e].next_retry_time = cr_now + calculate_backoff_delay(count)]
                   /\ UNCHANGED cr_stats
                   /\ cr_pc' = "line219"
    /\ UNCHANGED <<max_retries, initial_delay, max_delay, backoff_multiplier, retry_deque,
                   waiting_deque, cr_running, cr_entry, cr_current_time, cr_now>>
    /\ UNCHANGED cr_cleared
    /\ UNCHANGED cr_lock
    /\ UNCHANGED crOthers

\* _attempt_retry lines 198-201, without the lock: success_callback(retry_entry,
\* retry_time) is called; an exception it raises is caught at line 230.
CR_attempt_retry_line198 ==
    /\ cr_pc = "line198"
    /\ cr_entries' = [cr_entries EXCEPT ![cr_entry].succeeded = @ + 1]
    /\ \E raised \in CROutcomes : cr_pc' = IF raised THEN "line230" ELSE "loop"
    /\ UNCHANGED <<max_retries, initial_delay, max_delay, backoff_multiplier, retry_deque,
                   waiting_deque, cr_stats, cr_running, cr_entry, cr_current_time, cr_now>>
    /\ UNCHANGED cr_cleared
    /\ UNCHANGED cr_lock
    /\ UNCHANGED crOthers

\* _attempt_retry lines 209-212, without the lock: failure_callback(retry_entry,
\* "max_retries_exceeded") is called; an exception it raises is caught at
\* line 230.
CR_attempt_retry_line209 ==
    /\ cr_pc = "line209"
    /\ cr_entries' = [cr_entries EXCEPT ![cr_entry].failed = @ + 1]
    /\ \E raised \in CROutcomes : cr_pc' = IF raised THEN "line230" ELSE "loop"
    /\ UNCHANGED <<max_retries, initial_delay, max_delay, backoff_multiplier, retry_deque,
                   waiting_deque, cr_stats, cr_running, cr_entry, cr_current_time, cr_now>>
    /\ UNCHANGED cr_cleared
    /\ UNCHANGED cr_lock
    /\ UNCHANGED crOthers

\* A handler that puts the entry whose callback raised back in waiting_deque.
CR_attempt_retry_line230Requeues ==
    /\ cr_pc = "line230"
    /\ waiting_deque' = Append(waiting_deque, cr_entry)
    /\ cr_pc' = "loop"
    /\ UNCHANGED <<max_retries, initial_delay, max_delay, backoff_multiplier, retry_deque,
                   cr_entries, cr_stats, cr_running, cr_entry, cr_current_time, cr_now>>
    /\ UNCHANGED cr_cleared
    /\ UNCHANGED cr_lock
    /\ UNCHANGED crOthers

\* _attempt_retry lines 229-231: the exception of a callback is caught and
\* printed, and the processor goes on with its loop.
CR_attempt_retry_line230 ==
    /\ cr_pc = "line230"
    /\ cr_pc' = "loop"
    /\ UNCHANGED <<max_retries, initial_delay, max_delay, backoff_multiplier, retry_deque,
                   waiting_deque, cr_entries, cr_stats, cr_running, cr_entry, cr_current_time,
                   cr_now>>
    /\ UNCHANGED cr_cleared
    /\ UNCHANGED cr_lock
    /\ UNCHANGED crOthers

\* A re-queue that leaves the failed entry out of waiting_deque.
CR_attempt_retry_line219Drops ==
    /\ cr_pc = "line219"
    /\ cr_lock = CRFree
    /\ cr_stats' = [cr_stats EXCEPT !.current_waiting_size = Len(waiting_deque)]
    /\ cr_pc' = "loop"
    /\ UNCHANGED <<max_retries, initial_delay, max_delay, backoff_multiplier, retry_deque,
                   waiting_deque, cr_entries, cr_running, cr_entry, cr_current_time, cr_now>>
    /\ UNCHANGED cr_cleared
    /\ UNCHANGED cr_lock
    /\ UNCHANGED crOthers

\* _attempt_retry lines 219-221, with the lock: back to waiting_deque.
CR_attempt_retry_line219 ==
    /\ cr_pc = "line219"
    /\ cr_lock = CRFree
    /\ waiting_deque' = Append(waiting_deque, cr_entry)
    /\ cr_stats' = [cr_stats EXCEPT !.current_waiting_size = Len(waiting_deque) + 1]
    /\ cr_pc' = "loop"
    /\ UNCHANGED <<max_retries, initial_delay, max_delay, backoff_multiplier, retry_deque,
                   cr_entries, cr_running, cr_entry, cr_current_time, cr_now>>
    /\ UNCHANGED cr_cleared
    /\ UNCHANGED cr_lock
    /\ UNCHANGED crOthers

\* clear_queue(clear_waiting)
CR_clear_queue ==
    /\ cr_lock = CRFree
    /\ \E clear_waiting \in BOOLEAN :
         /\ waiting_deque' = IF clear_waiting THEN <<>> ELSE waiting_deque
         /\ cr_cleared' = (clear_waiting \/ cr_cleared)
    /\ retry_deque' = <<>>
    /\ cr_stats' = [cr_stats EXCEPT !.current_queue_size = 0,
                                    !.current_waiting_size = Len(waiting_deque')]
    /\ UNCHANGED <<max_retries, initial_delay, max_delay, backoff_multiplier, cr_entries,
                   cr_running, cr_pc, cr_entry, cr_current_time, cr_now>>
    /\ UNCHANGED cr_lock
    /\ UNCHANGED crOthers

\* force_retry_all()
CR_force_retry_all ==
    /\ cr_lock = CRFree
    /\ cr_entries' = [i \in DOMAIN cr_entries |->
                        IF i \in SeqToSet(waiting_deque)
                        THEN [cr_entries[i] EXCEPT !.next_retry_time = cr_now]
                        ELSE cr_entries[i]]
    /\ retry_deque' = retry_deque \o waiting_deque
    /\ waiting_deque' = <<>>
    /\ cr_stats' = [cr_stats EXCEPT !.current_queue_size = Len(retry_deque \o waiting_deque),
                                    !.current_waiting_size = 0]
    /\ UNCHANGED <<max_retries, initial_delay, max_delay, backoff_multiplier, cr_running,
                   cr_pc, cr_entry, cr_current_time, cr_now>>
    /\ UNCHANGED cr_cleared
    /\ UNCHANGED cr_lock
    /\ UNCHANGED crOthers

\* update_config(max_retries, initial_delay, max_delay, backoff_multiplier);
\* delays are whole clock ticks, above the floor of 0.1 s of line 420.
CRUpdateConfig(r, d, md, b) ==
    LET initial1 == IF d = CRNone THEN initial_delay ELSE d
    IN  /\ max_retries' = IF r = CRNone THEN max_retries ELSE CRMax(1, r)
        /\ initial_delay' = initial1
        /\ max_delay' = IF md = CRNone THEN max_delay ELSE CRMax(initial1, md)
        /\ backoff_multiplier' = IF b = CRNone THEN backoff_multiplier ELSE CRMax(1, b)

CR_update_config ==
    /\ cr_lock = CRFree
    /\ \E r \in CRRetries \cup {CRNone}, d \in CRDelays \cup {CRNone}, md \in CRMaxDelays \cup {CRNone},
          b \in CRMultipliers \cup {CRNone} : CRUpdateConfig(r, d, md, b)
    /\ UNCHANGED <<retry_deque, waiting_deque, cr_entries, cr_stats, cr_running, cr_pc,
                   cr_entry, cr_current_time, cr_now>>
    /\ UNCHANGED cr_cleared
    /\ UNCHANGED cr_lock
    /\ UNCHANGED crOthers

\* export_retry_log(), lines 445-460: inside "with self.lock" the method calls
\* get_pending_retries(), whose "with self.lock" of line 326 waits for the
\* lock its own thread holds. The caller stays there and the lock is never
\* released.
CR_export_retry_log ==
    /\ cr_lock = CRFree
    /\ cr_lock' = "export_retry_log"
    /\ UNCHANGED <<max_retries, initial_delay, max_delay, backoff_multiplier, retry_deque,
                   waiting_deque, cr_entries, cr_stats, cr_running, cr_pc, cr_entry,
                   cr_current_time, cr_now>>
    /\ UNCHANGED cr_cleared
    /\ UNCHANGED crOthers

\* stop(): self.running = False, written without the lock; the processor ends
\* at the next test of line 121 it reaches (none, while it waits for a lock
\* that export_retry_log holds).
CR_stop ==
    /\ cr_running
    /\ cr_running' = FALSE
    /\ UNCHANGED <<max_retries, initial_delay, max_delay, backoff_multiplier, retry_deque,
                   waiting_deque, cr_entries, cr_stats, cr_pc, cr_entry, cr_current_time,
                   cr_now>>
    /\ UNCHANGED cr_cleared
    /\ UNCHANGED cr_lock
    /\ UNCHANGED crOthers

\* time.time() advances.
CR_Tick ==
    /\ cr_now < CRMaxTime
    /\ cr_now' = cr_now + 1
    /\ UNCHANGED <<max_retries, initial_delay, max_delay, backoff_multiplier, retry_deque,
                   waiting_deque, cr_entries, cr_stats, cr_running, cr_pc, cr_entry,
                   cr_current_time>>
    /\ UNCHANGED cr_cleared
    /\ UNCHANGED cr_lock
    /\ UNCHANGED crOthers

\* RetryQueue(max_retries=r, initial_delay=d, max_delay=md, backoff_multiplier=b):
\* the constructor stores its arguments as they are.
CRConstructor(r, d, md, b) ==
    /\ max_retries = r
    /\ initial_delay = d
    /\ max_delay = md
    /\ backoff_multiplier = b
    /\ retry_deque = <<>>
    /\ waiting_deque = <<>>
    /\ cr_entries = <<>>
    /\ cr_stats = [total_messages_added |-> 0, total_retries_attempted |-> 0,
                   total_messages_succeeded |-> 0, total_messages_failed |-> 0,
                   current_queue_size |-> 0, current_waiting_size |-> 0]
    /\ cr_running = TRUE
    /\ cr_pc = "loop"
    /\ cr_entry = CRUnbound
    /\ cr_current_time = 0
    /\ cr_now = 0
    /\ cr_cleared = FALSE
    /\ cr_lock = CRFree

\* RetryQueue(max_retries=2, initial_delay=1, max_delay=2, backoff_multiplier=2)
CRInit == CRConstructor(2, 1, 2, 2)

\* The steps of the processor thread.
CRProcessor ==
    \/ CR_retry_processor_line121
    \/ CR_retry_processor_locked
    \/ CR_retry_processor_line148
    \/ CR_retry_processor_line149
    \/ CR_attempt_retry
    \/ CR_attempt_retry_line187
    \/ CR_attempt_retry_line198
    \/ CR_attempt_retry_line209
    \/ CR_attempt_retry_line230
    \/ CR_attempt_retry_line219

CRNext ==
    \/ CR_add_failed_message
    \/ CRProcessor
    \/ CR_clear_queue
    \/ CR_force_retry_all
    \/ CR_update_config
    \/ CR_export_retry_log
    \/ CR_stop
    \/ CR_Tick

\* Producers, the processor thread and the clock only.
CRQuietNext ==
    \/ CR_add_failed_message
    \/ CRProcessor
    \/ CR_Tick

\* Arguments of the constructor and of update_config for the study of the
\* backoff delays; a multiplier of 0 stands for the multipliers below 1.
CRConfigRetries == {2}

CRConfigDelays == {1, 2}

CRConfigMultipliers == {0, 1, 2}

CR_update_config_any ==
    /\ cr_lock = CRFree
    /\ \E d \in CRConfigDelays \cup {CRNone}, md \in CRConfigDelays \cup {CRNone},
          b \in CRConfigMultipliers \cup {CRNone} : CRUpdateConfig(CRNone, d, md, b)
    /\ UNCHANGED <<retry_deque, waiting_deque, cr_entries, cr_stats, cr_running, cr_pc,
                   cr_entry, cr_current_time, cr_now>>
    /\ UNCHANGED cr_cleared
    /\ UNCHANGED cr_lock
    /\ UNCHANGED crOthers

CRConfigInit ==
    \E r \in CRConfigRetries, d \in CRConfigDelays, md \in CRConfigDelays,
       b \in CRConfigMultipliers : CRConstructor(r, d, md, b)

CRConfigNext ==
    \/ CR_update_config_any
    \/ CR_add_failed_message
    \/ CRProcessor
    \/ CR_Tick

(***************************************************************************)
(* RetryQueue of src/retry_queue.py: a worker thread takes the messages    *)
(* that are due out of retry_queue, calls retry_callback on each and       *)
(* reports the result with mark_retry_success / add_retry_failure.         *)
(* RetryMessage objects are shared by reference: the deques and the        *)
(* worker's list hold indexes into rq_msgs.                                *)
(***************************************************************************)
RQMaxMsgs == 2

RQMaxTime == 3

\* completed_messages = deque(maxlen=1000)
RQCompletedMaxlen == 1000

\* RetryStatus
RQStatuses == {"pending", "retrying", "success", "failed", "abandoned"}

\* retry_callback(message, attempt) returns True, returns False or raises.
RQOutcomes == {"True", "False", "raise"}

RQMin(a, b) == IF a <= b THEN a ELSE b

RECURSIVE RQPower2(_)
RQPower2(n) == IF n <= 0 THEN 1 ELSE 2 * RQPower2(n - 1)

\* calculate_next_retry: delay = min(base_delay * 2 ** attempt_count, max_delay)
RQDelay(attempt_count) == RQMin(base_delay * RQPower2(attempt_count), rq_max_delay)

\* jitter = random.uniform(0.1, 0.5) * delay; the clock counts whole ticks, so
\* a message due at a fractional time is due at the next tick.
RQJitters(delay) == 1..((delay + 1) \div 2)

\* deque.remove(x): the first occurrence of x goes, ValueError (caught) if none.
RECURSIVE RQRemove(_, _)
RQRemove(q, x) ==
    IF q = <<>> THEN <<>>
    ELSE IF Head(q) = x THEN Tail(q)
    ELSE <<Head(q)>> \o RQRemove(Tail(q), x)

RQReverse(q) == [i \in 1..Len(q) |-> q[Len(q) + 1 - i]]

RQState == [msgs |-> rq_msgs, queue |-> retry_queue, completed |-> completed_messages,
            stats |-> rq_stats]

RQSetState(s) ==
    /\ rq_msgs' = s.msgs
    /\ retry_queue' = s.queue
    /\ completed_messages' = s.completed
    /\ rq_stats' = s.stats

\* _move_to_completed(retry_msg)
RQMoveToCompleted(s, m) ==
    LET queue1 == RQRemove(s.queue, m)
        appended == Append(s.completed, m)
    IN  [s EXCEPT !.queue = queue1,
                  !.completed = IF Len(appended) > RQCompletedMaxlen
                                THEN Tail(appended) ELSE appended,
                  !.stats.current_queue_size = Len(queue1),
                  !.stats.messages_by_status[s.msgs[m].status] = @ + 1]

\* mark_retry_success(message): TRUE when the message is in retry_queue.
RQFound(s, m) == m \in SeqToSet(s.queue)

RQMarkRetrySuccess(s, m) ==
    IF RQFound(s, m)
    THEN LET s1 == RQMoveToCompleted([s EXCEPT !.msgs[m].status = "success"], m)
         IN  [s1 EXCEPT !.stats.successful_retries = @ + 1]
    ELSE s

\* add_retry_failure(message, failure_reason), with the jitter drawn.
RQAddRetryFailure(s, m, jitter, now) ==
    IF RQFound(s, m)
    THEN LET count == s.msgs[m].attempt_count + 1
             s1 == IF count >= rq_max_retries
                   THEN RQMoveToCompleted(
                            [s EXCEPT !.msgs[m].attempt_count = count,
                                      !.msgs[m].status = "abandoned"], m)
                   ELSE [s EXCEPT !.msgs[m].attempt_count = count,
                                  !.msgs[m].status = "pending",
                                  !.msgs[m].next_retry_time =
                                      now + RQDelay(count) + jitter]
         IN  [s1 EXCEPT !.stats.total_retry_attempts = @ + 1]
    ELSE s

\* The test of get_ready_messages on one message.
RQIsReady(m, now) ==
    /\ rq_msgs[m].status = "pending"
    /\ now >= rq_msgs[m].next_retry_time

\* enqueue(message, failure_reason)
RQ_enqueue ==
    /\ Len(rq_msgs) < RQMaxMsgs
    /\ \E jitter \in RQJitters(RQDelay(0)) :
         rq_msgs' = Append(rq_msgs,
                           [max_retries |-> rq_max_retries, attempt_count |-> 0,
                            status |-> "pending", first_attempt_time |-> rq_now,
                            next_retry_time |-> rq_now + RQDelay(0) + jitter,
                            attempts_finished |-> 0])
    /\ retry_queue' = <<Len(rq_msgs) + 1>> \o retry_queue
    /\ rq_stats' = [rq_stats EXCEPT !.total_messages_added = @ + 1,
                                    !.current_queue_size = Len(retry_queue) + 1,
                                    !.messages_by_status["pending"] = @ + 1]
    /\ UNCHANGED <<rq_max_retries, base_delay, rq_max_delay, cleanup_interval,
                   completed_messages, rq_stop, rq_pc, rq_ready, rq_success, rq_now>>
    /\ UNCHANGED rqOthers

\* mark_retry_success(message), called from outside the worker.
RQ_mark_retry_success ==
    /\ \E m \in DOMAIN rq_msgs : RQSetState(RQMarkRetrySuccess(RQState, m))
    /\ UNCHANGED <<rq_max_retries, base_delay, rq_max_delay, cleanup_interval, rq_stop, rq_pc,
                   rq_ready, rq_success, rq_now>>
    /\ UNCHANGED rqOthers

\* add_retry_failure(message, failure_reason), called from outside the worker.
RQ_add_retry_failure ==
    /\ \E m \in DOMAIN rq_msgs :
         \E jitter \in RQJitters(RQDelay(rq_msgs[m].attempt_count + 1)) :
            RQSetState(RQAddRetryFailure(RQState, m, jitter, rq_now))
    /\ UNCHANGED <<rq_max_retries, base_delay, rq_max_delay, cleanup_interval, rq_stop, rq_pc,
                   rq_ready, rq_success, rq_now>>
    /\ UNCHANGED rqOthers

\* get_ready_messages() lines 229-249 on the state s at time now: the due
\* messages, oldest first, are marked RETRYING and leave retry_queue; the
\* others are restored in their order.
RQReady(now) == SelectSeq(RQReverse(retry_queue), LAMBDA m : RQIsReady(m, now))

RQTakeReady(now) ==
    /\ rq_msgs' = [m \in DOMAIN rq_msgs |->
                     IF m \in SeqToSet(RQReady(now))
                     THEN [rq_msgs[m] EXCEPT !.status = "retrying"]
                     ELSE rq_msgs[m]]
    /\ retry_queue' = SelectSeq(retry_queue, LAMBDA m : ~RQIsReady(m, now))

\* _worker_loop line 286: "while not self.stop_worker.is_set()", read without
\* the lock.
RQ_worker_loop ==
    /\ rq_pc = "loop"
    /\ rq_pc' = IF rq_stop THEN "stopped" ELSE "line289"
    /\ UNCHANGED <<rq_max_retries, base_delay, rq_max_delay, cleanup_interval, retry_queue,
                   completed_messages, rq_msgs, rq_stats, rq_stop, rq_ready, rq_success,
                   rq_now>>
    /\ UNCHANGED rqOthers

\* _worker_loop line 289: ready_messages = self.get_ready_messages(), under
\* the lock, whatever stop_worker has become since the test of line 286.
RQ_worker_get_ready_messages ==
    /\ rq_pc = "line289"
    /\ RQTakeReady(rq_now)
    /\ rq_ready' = RQReady(rq_now)
    /\ rq_pc' = "for"
    /\ UNCHANGED <<rq_max_retries, base_delay, rq_max_delay, cleanup_interval,
                   completed_messages, rq_stats, rq_stop, rq_success, rq_now>>
    /\ UNCHANGED rqOthers

\* get_ready_messages(), called from outside the worker: the due messages are
\* marked RETRYING and handed to the caller; they are no longer in
\* retry_queue.
RQ_get_ready_messages ==
    /\ RQReady(rq_now) # <<>>
    /\ RQTakeReady(rq_now)
    /\ UNCHANGED <<rq_max_retries, base_delay, rq_max_delay, cleanup_interval,
                   completed_messages, rq_stats, rq_stop, rq_pc, rq_ready, rq_success,
                   rq_now>>
    /\ UNCHANGED rqOthers

\* get_stats() line 338: current_queue_size is refreshed from retry_queue.
RQ_get_stats ==
    /\ rq_stats' = [rq_stats EXCEPT !.current_queue_size = Len(retry_queue)]
    /\ UNCHANGED <<rq_max_retries, base_delay, rq_max_delay, cleanup_interval, retry_queue,
                   completed_messages, rq_msgs, rq_stop, rq_pc, rq_ready, rq_success,
                   rq_now>>
    /\ UNCHANGED rqOthers

\* _worker_loop lines 291-295: the callback is called on the next ready message.
RQ_worker_callback ==
    /\ rq_pc = "for"
    /\ rq_ready # <<>>
    /\ \E outcome \in RQOutcomes : rq_success' = outcome
    /\ rq_pc' = "report"
    /\ UNCHANGED <<rq_max_retries, base_delay, rq_max_delay, cleanup_interval, retry_queue,
                   completed_messages, rq_msgs, rq_stats, rq_stop, rq_ready, rq_now>>
    /\ UNCHANGED rqOthers

\* _worker_loop lines 297-303: the result is reported with mark_retry_success
\* or add_retry_failure, whose return value is not looked at.
RQ_worker_report ==
    /\ rq_pc = "report"
    /\ LET m == Head(rq_ready)
       IN  \E jitter \in RQJitters(RQDelay(rq_msgs[m].attempt_count + 1)) :
             LET s1 == IF rq_success = "True"
                       THEN RQMarkRetrySuccess(RQState, m)
                       ELSE RQAddRetryFailure(RQState, m, jitter, rq_now)
             IN  RQSetState([s1 EXCEPT !.msgs[m].attempts_finished = @ + 1])
    /\ rq_ready' = Tail(rq_ready)
    /\ rq_pc' = "for"
    /\ UNCHANGED <<rq_max_retries, base_delay, rq_max_delay, cleanup_interval, rq_stop,
                   rq_success, rq_now>>
    /\ UNCHANGED rqOthers

\* _cleanup_old_messages: the completed messages older than cleanup_interval go.
RECURSIVE RQCleanup(_, _)
RQCleanup(completed, threshold) ==
    IF completed # <<>> /\ rq_msgs[Head(completed)].first_attempt_time < threshold
    THEN RQCleanup(Tail(completed), threshold)
    ELSE completed

\* _worker_loop lines 308-312: end of the pass.
RQ_worker_cleanup_old_messages ==
    /\ rq_pc = "for"
    /\ rq_ready = <<>>
    /\ completed_messages' = RQCleanup(completed_messages, rq_now - cleanup_interval)
    /\ rq_pc' = "loop"
    /\ UNCHANGED <<rq_max_retries, base_delay, rq_max_delay, cleanup_interval, retry_queue,
                   rq_msgs, rq_stats, rq_stop, rq_ready, rq_success, rq_now>>
    /\ UNCHANGED rqOthers

\* force_retry_all()
RQ_force_retry_all ==
    /\ rq_msgs' = [m \in DOMAIN rq_msgs |->
                     IF m \in SeqToSet(retry_queue) /\ rq_msgs[m].status = "pending"
                     THEN [rq_msgs[m] EXCEPT !.next_retry_time = rq_now]
                     ELSE rq_msgs[m]]
    /\ UNCHANGED <<rq_max_retries, base_delay, rq_max_delay, cleanup_interval, retry_queue,
                   completed_messages, rq_stats, rq_stop, rq_pc, rq_ready, rq_success, rq_now>>
    /\ UNCHANGED rqOthers

\* clear()
RQ_clear ==
    /\ retry_queue' = <<>>
    /\ rq_stats' = [rq_stats EXCEPT !.current_queue_size = 0]
    /\ UNCHANGED <<rq_max_retries, base_delay, rq_max_delay, cleanup_interval,
                   completed_messages, rq_msgs, rq_stop, rq_pc, rq_ready, rq_success, rq_now>>
    /\ UNCHANGED rqOthers

\* stop()
RQ_stop ==
    /\ ~rq_stop
    /\ rq_stop' = TRUE
    /\ UNCHANGED <<rq_max_retries, base_delay, rq_max_delay, cleanup_interval, retry_queue,
                   completed_messages, rq_msgs, rq_stats, rq_pc, rq_ready, rq_success, rq_now>>
    /\ UNCHANGED rqOthers

\* time.time() advances.
RQ_Tick ==
    /\ rq_now < RQMaxTime
    /\ rq_now' = rq_now + 1
    /\ UNCHANGED <<rq_max_retries, base_delay, rq_max_delay, cleanup_interval, retry_queue,
                   completed_messages, rq_msgs, rq_stats, rq_stop, rq_pc, rq_ready,
                   rq_success>>
    /\ UNCHANGED rqOthers

\* RetryQueue(max_retries=r, base_delay=d, max_delay=md, retry_callback=cb)
RQConstructor(r, d, md) ==
    /\ rq_max_retries = r
    /\ base_delay = d
    /\ rq_max_delay = md
    /\ cleanup_interval = 300
    /\ retry_queue = <<>>
    /\ completed_messages = <<>>
    /\ rq_msgs = <<>>
    /\ rq_stats = [total_messages_added |-> 0, total_retry_attempts |-> 0,
                   successful_retries |-> 0, current_queue_size |-> 0,
                   messages_by_status |-> [s \in RQStatuses |-> 0]]
    /\ rq_stop = FALSE
    /\ rq_pc = "loop"
    /\ rq_ready = <<>>
    /\ rq_success = "False"
    /\ rq_now = 0

\* RetryQueue(max_retries=2, base_delay=1, max_delay=2, retry_callback=cb)
RQInit == RQConstructor(2, 1, 2)

\* Arguments of the constructor for the study of the backoff delays.
RQConfigDelays == {1, 2}

RQConfigMaxDelays == {1, 2, 4}

RQConfigInit ==
    \E d \in RQConfigDelays, md \in RQConfigMaxDelays : RQConstructor(2, d, md)

\* The steps of the worker thread.
RQWorker ==
    \/ RQ_worker_loop
    \/ RQ_worker_get_ready_messages
    \/ RQ_worker_callback
    \/ RQ_worker_report
    \/ RQ_worker_cleanup_old_messages

RQNext ==
    \/ RQ_enqueue
    \/ RQ_mark_retry_success
    \/ RQ_add_retry_failure
    \/ RQWorker
    \/ RQ_get_ready_messages
    \/ RQ_get_stats
    \/ RQ_force_retry_all
    \/ RQ_clear
    \/ RQ_stop
    \/ RQ_Tick

\* Producers, the worker thread and the clock only.
RQQuietNext ==
    \/ RQ_enqueue
    \/ RQWorker
    \/ RQ_Tick

(***************************************************************************)
(* Ingress handlers: handle_message of src/app.py, ChatSocketHandlers of   *)
(* src/handlers/socket_handlers.py and handle_message of ChatServer1/app.py *)
(* (further down, with the callbacks of ChatServer1/app.py). A call is     *)
(* described by what the spam detector says of the text (is_spam), the     *)
(* "priority" field of the request (manual) and the priority the keyword   *)
(* detection gives the text (detected). A message is the dict the handler  *)
(* builds; "manual" in it is the handler's local manual_priority after its *)
(* conversion, kept with the message. The handlers run in the threads of   *)
(* SocketIO(async_mode='threading') and take no lock: a call is followed   *)
(* line by line wherever a line reads or writes what another call can see. *)
(***************************************************************************)
\* Bound on the messages handle_message of src/app.py enqueues.
INMaxQueued == 2

\* Bound on spam_count.
INMaxSpam == 6

\* Bound on the add_message calls of the handlers' message system.
INMaxAdds == 2

\* Bound on the connections of the client.
INMaxConnects == 2

\* Bound on the calls of ChatSocketHandlers in progress at once.
INMaxCalls == 2

SPAM_LIMIT == 5

\* PriorityMessageQueue(max_messages_per_category=10) of src/app.py
INMaxlen == 10

\* data.get("priority") is None
INNone == -1

\* a "priority" field that int() does not accept (ValueError, TypeError)
INBad == -2

\* float("inf"): int() raises OverflowError, which the conversion does not catch
INInf == -3

INManuals == {INNone, INBad, INInf, 0, 1, 4, 5}

INDetected == {1, 3}

\* priority arguments of broadcast_system_message
INSystemPriorities == {2, 7}

\* int(manual_priority) inside try/except, then "not in [1, 2, 3, 4]"
INConvert(manual) ==
    IF manual = INNone \/ manual = INBad THEN INNone
    ELSE IF manual \in {1, 2, 3, 4} THEN manual ELSE INNone

\* detect_message_priority(message, manual_priority), the keyword detection
\* of the text giving detected
detect_message_priority(detected, manual_priority) ==
    IF manual_priority # INNone /\ manual_priority \in {1, 2, 3, 4}
    THEN manual_priority ELSE detected

\* handle_message: priority = detect_message_priority(...); if is_spam: priority = 4
INPriority(is_spam, manual, detected) ==
    LET priority == detect_message_priority(detected, INConvert(manual))
    IN  IF is_spam THEN 4 ELSE priority

\* on_send_message: effective_priority = 4 if is_spam else manual_priority
effective_priority(is_spam, manual) == IF is_spam THEN 4 ELSE INConvert(manual)

\* PriorityMessageQueue.add_message(message, user, manual_priority) of
\* src/priority_queue.py: the priority of the message object
INAddMessagePriority(manual_priority, detected) ==
    IF manual_priority # INNone THEN manual_priority ELSE detected

\* deque(maxlen=n).append(x)
INAppend(q, x, maxlen) == IF Len(q) >= maxlen THEN Append(Tail(q), x) ELSE Append(q, x)

\* PriorityMessageQueue.get_all_messages_organized of src/app.py: the four
\* deques as lists, under the names of the priority classes; nothing is removed.
get_all_messages_organized(queues) ==
    [urgent |-> queues[1], high |-> queues[2], normal |-> queues[3], low |-> queues[4]]

inAppVars == <<in_queues, in_message_counter, in_organized, in_app_pc>>

inSocketVars == <<in_user_id, in_connected, in_spam_count, in_priority_queue, in_counter,
                  in_pc, in_out>>

\* The handler threads that run handle_message calls of src/app.py.
INAppThreads == {"thread1", "thread2"}

\* msg_data before add_message has given it an "id"
INData(is_spam, manual, priority) ==
    [id |-> 0, is_spam |-> is_spam, manual |-> manual, priority |-> priority]

INAppIdle == [at |-> "idle", op |-> "idle", msg_data |-> INData(FALSE, INNone, 0),
              organized_messages |-> get_all_messages_organized([p \in 1..4 |-> <<>>])]

\* handle_message of src/app.py, lines 303-357, and add_message up to line
\* 115: the message is built and message_counter incremented. An
\* OverflowError of int() is caught by the outer except: the message is
\* dropped.
IN_handle_message(t) ==
    /\ in_app_pc[t].at = "idle"
    /\ in_message_counter < INMaxQueued
    /\ \E is_spam \in BOOLEAN, manual \in INManuals, detected \in INDetected :
         IF manual = INInf
         THEN UNCHANGED <<in_message_counter, in_app_pc>>
         ELSE /\ in_message_counter' = in_message_counter + 1
              /\ in_app_pc' = [in_app_pc EXCEPT ![t] =
                                 [INAppIdle EXCEPT
                                    !.at = "line116",
                                    !.op = "handle_message",
                                    !.msg_data = INData(is_spam, INConvert(manual),
                                                        INPriority(is_spam, manual, detected))]]
    /\ UNCHANGED <<in_queues, in_organized>>
    /\ UNCHANGED inSocketVars
    /\ UNCHANGED inOthers

\* add_message line 116: message_data["id"] = self.message_counter, as the
\* counter is by now.
IN_add_message_line116(t) ==
    /\ in_app_pc[t].at = "line116"
    /\ in_app_pc' = [in_app_pc EXCEPT ![t].at = "line119",
                                      ![t].msg_data.id = in_message_counter]
    /\ UNCHANGED <<in_queues, in_message_counter, in_organized>>
    /\ UNCHANGED inSocketVars
    /\ UNCHANGED inOthers

\* add_message line 119: the message is appended to the deque of its priority.
IN_add_message_line119(t) ==
    /\ in_app_pc[t].at = "line119"
    /\ in_queues' = [in_queues EXCEPT ![in_app_pc[t].msg_data.priority] =
                        INAppend(@, in_app_pc[t].msg_data, INMaxlen)]
    /\ in_app_pc' = [in_app_pc EXCEPT ![t].at = "line128"]
    /\ UNCHANGED <<in_message_counter, in_organized>>
    /\ UNCHANGED inSocketVars
    /\ UNCHANGED inOthers

\* handle_login of src/app.py, lines 253-295, for a username that is free:
\* the organization read at line 279 goes to the user logging in only and is
\* not kept; the one of line 295 is read next.
IN_handle_login(t) ==
    /\ in_app_pc[t].at = "idle"
    /\ in_app_pc' = [in_app_pc EXCEPT ![t] =
                       [INAppIdle EXCEPT !.at = "line128", !.op = "handle_login"]]
    /\ UNCHANGED <<in_queues, in_message_counter, in_organized>>
    /\ UNCHANGED inSocketVars
    /\ UNCHANGED inOthers

\* get_all_messages_organized line 128: "urgent": list(self.queues[1])
IN_get_all_messages_organized_line128(t) ==
    /\ in_app_pc[t].at = "line128"
    /\ in_app_pc' = [in_app_pc EXCEPT ![t].at = "line129",
                                      ![t].organized_messages.urgent = in_queues[1]]
    /\ UNCHANGED <<in_queues, in_message_counter, in_organized>>
    /\ UNCHANGED inSocketVars
    /\ UNCHANGED inOthers

\* get_all_messages_organized line 129: "high": list(self.queues[2])
IN_get_all_messages_organized_line129(t) ==
    /\ in_app_pc[t].at = "line129"
    /\ in_app_pc' = [in_app_pc EXCEPT ![t].at = "line130",
                                      ![t].organized_messages.high = in_queues[2]]
    /\ UNCHANGED <<in_queues, in_message_counter, in_organized>>
    /\ UNCHANGED inSocketVars
    /\ UNCHANGED inOthers

\* get_all_messages_organized line 130: "normal": list(self.queues[3])
IN_get_all_messages_organized_line130(t) ==
    /\ in_app_pc[t].at = "line130"
    /\ in_app_pc' = [in_app_pc EXCEPT ![t].at = "line131",
                                      ![t].organized_messages.normal = in_queues[3]]
    /\ UNCHANGED <<in_queues, in_message_counter, in_organized>>
    /\ UNCHANGED inSocketVars
    /\ UNCHANGED inOthers

\* get_all_messages_organized line 131: "low": list(self.queues[4]); the
\* dict is returned to line 295 of handle_login or line 363 of handle_message.
IN_get_all_messages_organized_line131(t) ==
    /\ in_app_pc[t].at = "line131"
    /\ in_app_pc' = [in_app_pc EXCEPT
                       ![t].at = IF in_app_pc[t].op = "handle_login" THEN "line296"
                                 ELSE "line364",
                       ![t].organized_messages.low = in_queues[4]]
    /\ UNCHANGED <<in_queues, in_message_counter, in_organized>>
    /\ UNCHANGED inSocketVars
    /\ UNCHANGED inOthers

\* handle_login line 296: the organization read at line 295 is broadcast.
IN_handle_login_line296(t) ==
    /\ in_app_pc[t].at = "line296"
    /\ in_organized' = in_app_pc[t].organized_messages
    /\ in_app_pc' = [in_app_pc EXCEPT ![t] = INAppIdle]
    /\ UNCHANGED <<in_queues, in_message_counter>>
    /\ UNCHANGED inSocketVars
    /\ UNCHANGED inOthers

\* handle_message line 364: the organization read at line 363 is broadcast.
IN_handle_message_line364(t) ==
    /\ in_app_pc[t].at = "line364"
    /\ in_organized' = in_app_pc[t].organized_messages
    /\ in_app_pc' = [in_app_pc EXCEPT ![t] = INAppIdle]
    /\ UNCHANGED <<in_queues, in_message_counter>>
    /\ UNCHANGED inSocketVars
    /\ UNCHANGED inOthers

\* The message system of ChatSocketHandlers is a PriorityMessageQueue of
\* src/priority_queue.py. A message object: "counter" is the message_counter
\* read at line 91, "flagged" what the spam detector said of the message,
\* "is_spam" what message.get("is_spam", False) gives, "owner" the call that
\* built the object and has not yet written its "is_spam".
INNoOwner == "none"

INObject(handler, counter, flagged, manual, priority) ==
    [handler |-> handler, counter |-> counter, flagged |-> flagged, manual |-> manual,
     priority |-> priority, is_spam |-> FALSE, owner |-> INNoOwner]

INNoObject == INObject("none", 0, FALSE, INNone, 0)

\* format_message_for_client(next_message): the message as it is shown.
INFormat(message_obj) == [message_obj EXCEPT !.is_spam = FALSE, !.owner = INNoOwner]

\* No 'new_message' emitted yet.
INNoMessage == [message |-> INNoObject, is_spam |-> FALSE, highlighted_spam |-> FALSE]

\* The handler threads that run on_send_message calls, and the thread that
\* calls broadcast_system_message.
INThreads == {"thread1", "thread2"}

INSystem == "system"

INCalls == INThreads \cup {INSystem}

INIdle == [at |-> "idle", sid |-> 0, is_spam |-> FALSE, message_obj |-> INNoObject,
           formatted_msg |-> INNoMessage]

\* user_id in self.connected_users
INPresent(sid) == in_connected /\ in_user_id = sid

\* The calls in progress that have not reached add_message yet.
INPending == Cardinality({c \in INCalls : in_pc[c].at \in {"line110", "line122", "line73"}})

\* The calls in progress.
INActive == Cardinality({c \in INCalls : in_pc[c].at # "idle"})

\* The tuples (priority, counter, message_obj) of the heap compare by priority
\* and counter; with both equal Python compares the dicts and raises
\* TypeError.
INTie(x, y) == HeapKey(x) = HeapKey(y)

INSwap(heap, i, j) == [heap EXCEPT ![i] = heap[j], ![j] = heap[i]]

\* _heapq's siftdown on the item at pos (1-based positions): it is exchanged
\* with its parent as long as it is smaller; a comparison that raises leaves
\* the list as it is by then.
RECURSIVE INSiftDown(_, _, _)
INSiftDown(heap, startpos, pos) ==
    IF pos > startpos
    THEN IF INTie(heap[pos], heap[pos \div 2])
         THEN [heap |-> heap, raised |-> TRUE]
         ELSE IF ItemLess(heap[pos], heap[pos \div 2])
              THEN INSiftDown(INSwap(heap, pos, pos \div 2), startpos, pos \div 2)
              ELSE [heap |-> heap, raised |-> FALSE]
    ELSE [heap |-> heap, raised |-> FALSE]

\* _heapq's siftup: the smaller child is moved up until a leaf is hit, then
\* the item is sifted down from there.
RECURSIVE INSiftUp(_, _)
INSiftUp(heap, pos) ==
    LET childpos == 2 * pos
        rightpos == childpos + 1
    IN  IF childpos > Len(heap) THEN INSiftDown(heap, 1, pos)
        ELSE IF rightpos <= Len(heap) /\ INTie(heap[childpos], heap[rightpos])
        THEN [heap |-> heap, raised |-> TRUE]
        ELSE LET child == IF rightpos <= Len(heap)
                             /\ ~ItemLess(heap[childpos], heap[rightpos])
                          THEN rightpos ELSE childpos
             IN  INSiftUp(INSwap(heap, pos, child), child)

\* heapq.heappush(heap, item): the item is appended, then sifted down.
INHeapPush(heap, item) == INSiftDown(Append(heap, item), 1, Len(heap) + 1)

\* heapq.heappop(heap): the last item takes the place of the root, which is
\* returned unless a comparison raises.
INHeapPop(heap) ==
    LET lastelt == heap[Len(heap)]
        rest == SubSeq(heap, 1, Len(heap) - 1)
    IN  IF rest = <<>> THEN [item |-> lastelt, heap |-> rest, raised |-> FALSE]
        ELSE LET sifted == INSiftUp([rest EXCEPT ![1] = lastelt], 1)
             IN  [item |-> rest[1], heap |-> sifted.heap, raised |-> sifted.raised]

\* ChatSocketHandlers.on_connect, lines 57-70, with the right access code: the
\* new connection has a new sid and a spam_count of 0.
IN_on_connect ==
    /\ ~in_connected
    /\ in_user_id < INMaxConnects
    /\ in_user_id' = in_user_id + 1
    /\ in_connected' = TRUE
    /\ in_spam_count' = 0
    /\ UNCHANGED <<in_priority_queue, in_counter, in_pc, in_out>>
    /\ UNCHANGED inAppVars
    /\ UNCHANGED inOthers

\* ChatSocketHandlers.on_disconnect, lines 72-78: the entry of the sid goes.
IN_on_disconnect ==
    /\ in_connected
    /\ in_connected' = FALSE
    /\ in_spam_count' = 0
    /\ UNCHANGED <<in_user_id, in_priority_queue, in_counter, in_pc, in_out>>
    /\ UNCHANGED inAppVars
    /\ UNCHANGED inOthers

\* ChatSocketHandlers.on_send_message, lines 80-107, for a message that passes
\* validate_message: a flagged message is counted at once, and the two
\* 'spam_alert' are then emitted (lines 110-119).
IN_on_send_message(t) ==
    /\ in_pc[t].at = "idle"
    /\ in_connected
    /\ INActive < INMaxCalls
    /\ \E is_spam \in BOOLEAN :
         /\ \/ in_counter + INPending < INMaxAdds
            \/ is_spam /\ in_spam_count >= SPAM_LIMIT
         /\ is_spam => in_spam_count < INMaxSpam
         /\ in_spam_count' = IF is_spam THEN in_spam_count + 1 ELSE in_spam_count
         /\ in_pc' = [in_pc EXCEPT ![t] =
                         [INIdle EXCEPT !.at = IF is_spam THEN "line110" ELSE "line122",
                                        !.sid = in_user_id, !.is_spam = is_spam]]
    /\ UNCHANGED <<in_user_id, in_connected, in_priority_queue, in_counter, in_out>>
    /\ UNCHANGED inAppVars
    /\ UNCHANGED inOthers

\* on_send_message lines 122-142: the limit test (KeyError when the sid is no
\* longer connected, caught at line 166) and the conversion of the manual
\* priority of the request (OverflowError caught at line 166).
IN_on_send_message_line122(t) ==
    /\ in_pc[t].at \in {"line110", "line122"}
    /\ \E overflow \in BOOLEAN :
         IF \/ ~INPresent(in_pc[t].sid)
            \/ in_spam_count > SPAM_LIMIT
            \/ overflow
         THEN in_pc' = [in_pc EXCEPT ![t] = INIdle]
         ELSE in_pc' = [in_pc EXCEPT ![t].at = "line73"]
    /\ UNCHANGED <<in_user_id, in_connected, in_spam_count, in_priority_queue, in_counter,
                   in_out>>
    /\ UNCHANGED inAppVars
    /\ UNCHANGED inOthers

\* add_message line 73: self.message_counter += 1
IN_add_message_line73(c) ==
    /\ in_pc[c].at = "line73"
    /\ in_counter' = in_counter + 1
    /\ in_pc' = [in_pc EXCEPT ![c].at = "line91"]
    /\ UNCHANGED <<in_user_id, in_connected, in_spam_count, in_priority_queue, in_out>>
    /\ UNCHANGED inAppVars
    /\ UNCHANGED inOthers

\* ChatSocketHandlers.broadcast_system_message(message, priority), lines
\* 196-199, up to the call of add_message; nothing is counted in spam_count.
IN_broadcast_system_message ==
    /\ in_pc[INSystem].at = "idle"
    /\ INActive < INMaxCalls
    /\ in_counter + INPending < INMaxAdds
    /\ \E is_spam \in BOOLEAN :
         in_pc' = [in_pc EXCEPT ![INSystem] =
                     [INIdle EXCEPT !.at = "line73", !.is_spam = is_spam]]
    /\ UNCHANGED <<in_user_id, in_connected, in_spam_count, in_priority_queue, in_counter,
                   in_out>>
    /\ UNCHANGED inAppVars
    /\ UNCHANGED inOthers

\* add_message lines 74-93: the priority of the message (what the caller
\* gave, or the detected one) and message_obj, whose 'counter' is
\* message_counter as it is by now. on_send_message gives 4 for a flagged
\* message and else the converted manual priority; broadcast_system_message
\* gives 4 for a flagged message and else its priority argument as it is.
IN_add_message_line91(c) ==
    /\ in_pc[c].at = "line91"
    /\ \E manual \in IF c = INSystem THEN INSystemPriorities ELSE INManuals \ {INInf},
          detected \in INDetected :
         LET is_spam == in_pc[c].is_spam
             manual_priority == IF c = INSystem
                                THEN IF is_spam THEN 4 ELSE manual
                                ELSE effective_priority(is_spam, manual)
             message_obj ==
                 [INObject(IF c = INSystem THEN "broadcast_system_message"
                           ELSE "on_send_message",
                           in_counter, is_spam,
                           IF c = INSystem THEN manual ELSE INConvert(manual),
                           INAddMessagePriority(manual_priority, detected))
                    EXCEPT !.owner = IF c = INSystem THEN INNoOwner ELSE c]
         IN  in_pc' = [in_pc EXCEPT ![c].at = "line96", ![c].message_obj = message_obj]
    /\ UNCHANGED <<in_user_id, in_connected, in_spam_count, in_priority_queue, in_counter,
                   in_out>>
    /\ UNCHANGED inAppVars
    /\ UNCHANGED inOthers

\* The call that raised no longer writes on its object.
INDisown(heap, c) ==
    [i \in DOMAIN heap |->
        IF heap[i].message_obj.owner = c
        THEN [heap[i] EXCEPT !.message_obj.owner = INNoOwner] ELSE heap[i]]

\* add_message line 96: heappush of (priority, self.message_counter,
\* message_obj), the counter read again. A TypeError of the push leaves the
\* object in the list and ends the call in the except of its handler (line
\* 166, line 215).
IN_add_message_line96(c) ==
    /\ in_pc[c].at = "line96"
    /\ LET message_obj == in_pc[c].message_obj
           pushed == INHeapPush(in_priority_queue,
                                [priority |-> message_obj.priority, counter |-> in_counter,
                                 message_obj |-> message_obj])
       IN  IF pushed.raised
           THEN /\ in_priority_queue' = INDisown(pushed.heap, c)
                /\ in_pc' = [in_pc EXCEPT ![c] = INIdle]
           ELSE /\ in_priority_queue' = pushed.heap
                /\ in_pc' = [in_pc EXCEPT
                               ![c].at = IF c = INSystem THEN "line203" ELSE "line147",
                               ![c].message_obj = INNoObject]
    /\ UNCHANGED <<in_user_id, in_connected, in_spam_count, in_counter, in_out>>
    /\ UNCHANGED inAppVars
    /\ UNCHANGED inOthers

\* on_send_message line 147: message_obj["is_spam"] = is_spam, on the object
\* wherever it is by now: in the heap or in the hands of the call that took it.
INMark(message_obj, t) ==
    IF message_obj.owner = t
    THEN [message_obj EXCEPT !.is_spam = in_pc[t].is_spam, !.owner = INNoOwner]
    ELSE message_obj

IN_on_send_message_line147(t) ==
    /\ in_pc[t].at = "line147"
    /\ in_priority_queue' = [i \in DOMAIN in_priority_queue |->
                               [in_priority_queue[i] EXCEPT
                                  !.message_obj = INMark(@, t)]]
    /\ in_pc' = [c \in INCalls |->
                   IF c = t THEN [in_pc[c] EXCEPT !.at = "line150"]
                   ELSE [in_pc[c] EXCEPT !.message_obj = INMark(@, t)]]
    /\ UNCHANGED <<in_user_id, in_connected, in_spam_count, in_counter, in_out>>
    /\ UNCHANGED inAppVars
    /\ UNCHANGED inOthers

\* on_send_message line 150: get_next_message() takes the message at the root
\* of the heap (priority_queue.py lines 108-111); None ends the call, a
\* TypeError of heappop ends it in the except of line 166 with the message
\* taken off the heap.
IN_on_send_message_line150(t) ==
    /\ in_pc[t].at = "line150"
    /\ IF in_priority_queue = <<>>
       THEN /\ in_pc' = [in_pc EXCEPT ![t] = INIdle]
            /\ UNCHANGED in_priority_queue
       ELSE LET popped == INHeapPop(in_priority_queue)
            IN  /\ in_priority_queue' = popped.heap
                /\ in_pc' = [in_pc EXCEPT ![t] =
                               IF popped.raised THEN INIdle
                               ELSE [in_pc[t] EXCEPT !.at = "line153",
                                                     !.message_obj = popped.item.message_obj]]
    /\ UNCHANGED <<in_user_id, in_connected, in_spam_count, in_counter, in_out>>
    /\ UNCHANGED inAppVars
    /\ UNCHANGED inOthers

\* on_send_message lines 152-160: the message is formatted; when its
\* "is_spam" says so by now it is shown as spam, with "priority" 4.
IN_on_send_message_line153(t) ==
    /\ in_pc[t].at = "line153"
    /\ in_pc' = [in_pc EXCEPT
                   ![t].at = "line162",
                   ![t].message_obj = INNoObject,
                   ![t].formatted_msg =
                       [message |-> [INFormat(in_pc[t].message_obj) EXCEPT
                                       !.priority = IF in_pc[t].message_obj.is_spam
                                                    THEN 4 ELSE @],
                        is_spam |-> in_pc[t].message_obj.is_spam,
                        highlighted_spam |-> in_pc[t].message_obj.is_spam]]
    /\ UNCHANGED <<in_user_id, in_connected, in_spam_count, in_priority_queue, in_counter,
                   in_out>>
    /\ UNCHANGED inAppVars
    /\ UNCHANGED inOthers

\* on_send_message line 162: emit('new_message', formatted_msg, broadcast=True)
IN_on_send_message_line162(t) ==
    /\ in_pc[t].at = "line162"
    /\ in_out' = in_pc[t].formatted_msg
    /\ in_pc' = [in_pc EXCEPT ![t] = INIdle]
    /\ UNCHANGED <<in_user_id, in_connected, in_spam_count, in_priority_queue, in_counter>>
    /\ UNCHANGED inAppVars
    /\ UNCHANGED inOthers

\* broadcast_system_message lines 203-211: the message at the root of the
\* heap is taken and formatted; when the message of this call was flagged it
\* is shown as spam, with "priority" 4.
IN_broadcast_system_message_line203 ==
    /\ in_pc[INSystem].at = "line203"
    /\ IF in_priority_queue = <<>>
       THEN /\ in_pc' = [in_pc EXCEPT ![INSystem] = INIdle]
            /\ UNCHANGED in_priority_queue
       ELSE LET popped == INHeapPop(in_priority_queue)
            IN  /\ in_priority_queue' = popped.heap
                /\ in_pc' = [in_pc EXCEPT ![INSystem] =
                               IF popped.raised THEN INIdle
                               ELSE [in_pc[INSystem] EXCEPT
                                       !.at = "line213",
                                       !.formatted_msg =
                                           [message |->
                                                [INFormat(popped.item.message_obj) EXCEPT
                                                   !.priority = IF in_pc[INSystem].is_spam
                                                                THEN 4 ELSE @],
                                            is_spam |-> in_pc[INSystem].is_spam,
                                            highlighted_spam |-> in_pc[INSystem].is_spam]]]
    /\ UNCHANGED <<in_user_id, in_connected, in_spam_count, in_counter, in_out>>
    /\ UNCHANGED inAppVars
    /\ UNCHANGED inOthers

\* broadcast_system_message line 213: emit('new_message', formatted_msg,
\* broadcast=True)
IN_broadcast_system_message_line213 ==
    /\ in_pc[INSystem].at = "line213"
    /\ in_out' = in_pc[INSystem].formatted_msg
    /\ in_pc' = [in_pc EXCEPT ![INSystem] = INIdle]
    /\ UNCHANGED <<in_user_id, in_connected, in_spam_count, in_priority_queue, in_counter>>
    /\ UNCHANGED inAppVars
    /\ UNCHANGED inOthers

INAppInit ==
    /\ in_queues = [p \in 1..4 |-> <<>>]
    /\ in_message_counter = 0
    /\ in_organized = get_all_messages_organized([p \in 1..4 |-> <<>>])
    /\ in_app_pc = [t \in INAppThreads |-> INAppIdle]

INSocketInit ==
    /\ in_user_id = 0
    /\ in_connected = FALSE
    /\ in_spam_count = 0
    /\ in_priority_queue = <<>>
    /\ in_counter = 0
    /\ in_pc = [c \in INCalls |-> INIdle]
    /\ in_out = INNoMessage

INInit == INAppInit /\ INSocketInit

\* The handlers of src/app.py.
INAppNext ==
    \/ \E t \in INAppThreads : IN_handle_message(t)
    \/ \E t \in INAppThreads : IN_add_message_line116(t)
    \/ \E t \in INAppThreads : IN_add_message_line119(t)
    \/ \E t \in INAppThreads : IN_handle_login(t)
    \/ \E t \in INAppThreads : IN_get_all_messages_organized_line128(t)
    \/ \E t \in INAppThreads : IN_get_all_messages_organized_line129(t)
    \/ \E t \in INAppThreads : IN_get_all_messages_organized_line130(t)
    \/ \E t \in INAppThreads : IN_get_all_messages_organized_line131(t)
    \/ \E t \in INAppThreads : IN_handle_login_line296(t)
    \/ \E t \in INAppThreads : IN_handle_message_line364(t)

\* The handlers of ChatSocketHandlers.
INSocketNext ==
    \/ IN_on_connect
    \/ IN_on_disconnect
    \/ \E t \in INThreads : IN_on_send_message(t)
    \/ \E t \in INThreads : IN_on_send_message_line122(t)
    \/ IN_broadcast_system_message
    \/ \E c \in INCalls : IN_add_message_line73(c)
    \/ \E c \in INCalls : IN_add_message_line91(c)
    \/ \E c \in INCalls : IN_add_message_line96(c)
    \/ \E t \in INThreads : IN_on_send_message_line147(t)
    \/ \E t \in INThreads : IN_on_send_message_line150(t)
    \/ \E t \in INThreads : IN_on_send_message_line153(t)
    \/ \E t \in INThreads : IN_on_send_message_line162(t)
    \/ IN_broadcast_system_message_line203
    \/ IN_broadcast_system_message_line213

(***************************************************************************)
(* ChatServer1/app.py: handle_message, the batch queue's processor and     *)
(* force_send_batch as far as they move messages, the callbacks registered *)
(* with the queues and the route clear_display. A message is known by the  *)
(* number of the handle_message call that accepted it; the copy given to   *)
(* the retry queue is another object, told apart by retry_success once it  *)
(* comes back. The lists of a batch hold the very dicts of current_batch:  *)
(* the "id" of a dict is kept apart from the lists, in ap_id.              *)
(***************************************************************************)
APMaxMsgs == 2

\* DisplayMessageQueue(max_messages_per_category=50)
APMaxlen == 50

\* The "priority" fields of the requests.
APManuals == {INNone, INInf, 1, 5}

\* The priorities the keyword detection gives the texts of the requests.
APDetected == {3}

\* msg_data.copy()
APMessage(n, is_spam, manual, priority) ==
    [msg |-> n, is_spam |-> is_spam, manual |-> manual, priority |-> priority,
     retry_success |-> FALSE]

\* The dicts: the copy given to the batch queue and the copy given to the
\* retry queue, of each message.
APObjects == (1..APMaxMsgs) \X BOOLEAN

APKey(message) == <<message.msg, message.retry_success>>

\* "id" not in message_data
APNoId == -1

APIdle == [at |-> "idle", msg_data |-> APMessage(0, FALSE, INNone, 0)]

\* The handler threads that run handle_message calls.
APHandlers == {1, 2}

\* The threads that run batch_transmission_callback: the batch processor
\* (_send_batch) and the caller of force_send_batch.
APRunners == {"processor", "force"}

APRunner(at) == [at |-> at, messages |-> <<>>, i |-> 0]

\* batch_queue.lock is held by a force_send_batch from its line 197 on.
APLocked == ap_run["force"].at \notin {"idle", "line197"}

APClearIdle == [at |-> "idle", queue |-> 0]

\* Bound on the clear_display calls.
APMaxClears == 1

\* Bound on the threads in the middle of a call at once: the handle_message
\* calls, the processor between two passes of its loop, the force_send_batch
\* call and the clear_display call.
APMaxActive == 2

APActive ==
    Cardinality({h \in APHandlers : ap_pc[h].at # "idle"})
    + Cardinality({r \in APRunners : ap_run[r].at \notin {"idle", "loop"}})
    + (IF ap_clear.at = "idle" THEN 0 ELSE 1)

\* handle_message lines 482-552: the message is built and a copy of it is
\* given to batch_queue.add_message. An OverflowError of int() is caught by
\* the outer except: the message is dropped.
AP_handle_message(h) ==
    /\ ap_pc[h].at = "idle"
    /\ ap_processed < APMaxMsgs
    /\ APActive < APMaxActive
    /\ ~APLocked
    /\ \E is_spam \in BOOLEAN, manual \in APManuals, detected \in APDetected :
         IF manual = INInf
         THEN UNCHANGED <<ap_next, ap_processed, ap_message_queue, ap_pc>>
         ELSE LET msg_data == APMessage(ap_next + 1, is_spam, INConvert(manual),
                                        INPriority(is_spam, manual, detected))
              IN  /\ ap_next' = ap_next + 1
                  /\ ap_processed' = ap_processed + 1
                  /\ ap_message_queue' = Append(ap_message_queue, msg_data)
                  /\ ap_pc' = [ap_pc EXCEPT ![h] = [at |-> "line556",
                                                    msg_data |-> msg_data]]
    /\ UNCHANGED <<ap_current_batch, ap_retry_queue, ap_display, ap_message_counter,
                   ap_id, ap_hung, ap_run, ap_clear, ap_clears>>
    /\ UNCHANGED apOthers

\* handle_message lines 555-562: with a user offline the message is stored
\* with offline_queue.store_message_for_multiple_users, a call that does not
\* return (store_message_for_user waits for the lock it holds); the calls
\* that follow run in other threads.
AP_handle_message_line556(h) ==
    /\ ap_pc[h].at = "line556"
    /\ \E offline_users \in BOOLEAN :
         IF offline_users
         THEN /\ ap_hung' = ap_hung \cup {ap_pc[h].msg_data.msg}
              /\ ap_pc' = [ap_pc EXCEPT ![h] = APIdle]
         ELSE /\ ap_pc' = [ap_pc EXCEPT ![h].at = "line565"]
              /\ UNCHANGED ap_hung
    /\ UNCHANGED <<ap_next, ap_processed, ap_message_queue, ap_current_batch, ap_retry_queue, ap_display,
                   ap_message_counter, ap_id, ap_run, ap_clear, ap_clears>>
    /\ UNCHANGED apOthers

\* handle_message lines 565-573: when simulate_message_delivery returns False
\* another copy goes to retry_queue.add_failed_message.
AP_handle_message_line565(h) ==
    /\ ap_pc[h].at = "line565"
    /\ \E delivery_success \in BOOLEAN :
         ap_retry_queue' = IF delivery_success THEN ap_retry_queue
                           ELSE ap_retry_queue \cup {ap_pc[h].msg_data}
    /\ ap_pc' = [ap_pc EXCEPT ![h] = APIdle]
    /\ UNCHANGED <<ap_next, ap_processed, ap_message_queue, ap_current_batch, ap_display,
                   ap_message_counter, ap_id, ap_hung, ap_run, ap_clear, ap_clears>>
    /\ UNCHANGED apOthers

\* BatchQueue._batch_processor lines 104-135, with the lock: the queued
\* messages move to current_batch (max_batch_size is 25); whether the batch is
\* due depends on the time it has waited. With nothing queued the pass ends
\* at line 108.
AP_batch_processor ==
    /\ ap_run["processor"].at = "loop"
    /\ ~APLocked
    /\ ap_message_queue # <<>>
    /\ ap_current_batch' = ap_current_batch \o ap_message_queue
    /\ ap_message_queue' = <<>>
    /\ \E should_send \in BOOLEAN :
         /\ should_send => APActive < APMaxActive
         /\ ap_run' = [ap_run EXCEPT !["processor"].at =
                                        IF should_send THEN "line137" ELSE "loop"]
    /\ UNCHANGED <<ap_next, ap_processed, ap_retry_queue, ap_display, ap_message_counter, ap_id, ap_pc,
                   ap_hung, ap_clear, ap_clears>>
    /\ UNCHANGED apOthers

\* _batch_processor line 137, without the lock: "if should_send and
\* self.current_batch".
AP_batch_processor_line137 ==
    /\ ap_run["processor"].at = "line137"
    /\ ap_run' = [ap_run EXCEPT !["processor"].at =
                                   IF ap_current_batch = <<>> THEN "loop" ELSE "line153"]
    /\ UNCHANGED <<ap_next, ap_processed, ap_message_queue, ap_current_batch, ap_retry_queue, ap_display,
                   ap_message_counter, ap_id, ap_pc, ap_hung, ap_clear, ap_clears>>
    /\ UNCHANGED apOthers

\* BatchQueue._send_batch line 153, without the lock: nothing to do when
\* current_batch is empty by now.
AP_send_batch ==
    /\ ap_run["processor"].at = "line153"
    /\ ap_run' = [ap_run EXCEPT !["processor"].at =
                                   IF ap_current_batch = <<>> THEN "loop" ELSE "line158"]
    /\ UNCHANGED <<ap_next, ap_processed, ap_message_queue, ap_current_batch, ap_retry_queue, ap_display,
                   ap_message_counter, ap_id, ap_pc, ap_hung, ap_clear, ap_clears>>
    /\ UNCHANGED apOthers

\* The callback is called with a copy of the list current_batch (of the same
\* dicts): add_batch_messages goes through it from its first message, or has
\* nothing to go through.
APCallback(r, messages) ==
    IF messages = <<>> THEN APRunner(IF r = "processor" THEN "line187" ELSE "line213")
    ELSE [at |-> "line128", messages |-> messages, i |-> 1]

\* _send_batch lines 156-182: 'messages': self.current_batch.copy() as it is
\* by now, and the call of the callback.
AP_send_batch_line158 ==
    /\ ap_run["processor"].at = "line158"
    /\ ap_run' = [ap_run EXCEPT !["processor"] = APCallback("processor", ap_current_batch)]
    /\ UNCHANGED <<ap_next, ap_processed, ap_message_queue, ap_current_batch, ap_retry_queue, ap_display,
                   ap_message_counter, ap_id, ap_pc, ap_hung, ap_clear, ap_clears>>
    /\ UNCHANGED apOthers

\* DisplayMessageQueue.add_batch_messages lines 124-128, called at line 279 of
\* batch_transmission_callback: "if 'id' not in message_data" for the next
\* message of the batch.
AP_add_batch_messages(r) ==
    /\ ap_run[r].at = "line128"
    /\ ap_run' = [ap_run EXCEPT ![r].at =
                     IF ap_id[APKey(ap_run[r].messages[ap_run[r].i])] = APNoId
                     THEN "line129" ELSE "line133"]
    /\ UNCHANGED <<ap_next, ap_processed, ap_message_queue, ap_current_batch, ap_retry_queue, ap_display,
                   ap_message_counter, ap_id, ap_pc, ap_hung, ap_clear, ap_clears>>
    /\ UNCHANGED apOthers

\* add_batch_messages line 129: self.message_counter += 1
AP_add_batch_messages_line129(r) ==
    /\ ap_run[r].at = "line129"
    /\ ap_message_counter' = ap_message_counter + 1
    /\ ap_run' = [ap_run EXCEPT ![r].at = "line130"]
    /\ UNCHANGED <<ap_next, ap_processed, ap_message_queue, ap_current_batch, ap_retry_queue, ap_display,
                   ap_id, ap_pc, ap_hung, ap_clear, ap_clears>>
    /\ UNCHANGED apOthers

\* add_batch_messages line 130: message_data["id"] = self.message_counter, as
\* the counter is by now.
AP_add_batch_messages_line130(r) ==
    /\ ap_run[r].at = "line130"
    /\ ap_id' = [ap_id EXCEPT ![APKey(ap_run[r].messages[ap_run[r].i])] =
                                 ap_message_counter]
    /\ ap_run' = [ap_run EXCEPT ![r].at = "line133"]
    /\ UNCHANGED <<ap_next, ap_processed, ap_message_queue, ap_current_batch, ap_retry_queue, ap_display,
                   ap_message_counter, ap_pc, ap_hung, ap_clear, ap_clears>>
    /\ UNCHANGED apOthers

\* add_batch_messages lines 133-136: the message is appended to the display
\* queue of its priority; after the last one the callback emits the
\* organization and returns.
AP_add_batch_messages_line133(r) ==
    /\ ap_run[r].at = "line133"
    /\ LET message_data == ap_run[r].messages[ap_run[r].i]
       IN  ap_display' = [ap_display EXCEPT ![message_data.priority] =
                             INAppend(@, message_data, APMaxlen)]
    /\ ap_run' = [ap_run EXCEPT ![r] =
                     IF ap_run[r].i < Len(ap_run[r].messages)
                     THEN [ap_run[r] EXCEPT !.at = "line128", !.i = @ + 1]
                     ELSE APCallback(r, <<>>)]
    /\ UNCHANGED <<ap_next, ap_processed, ap_message_queue, ap_current_batch, ap_retry_queue,
                   ap_message_counter, ap_id, ap_pc, ap_hung, ap_clear, ap_clears>>
    /\ UNCHANGED apOthers

\* _send_batch lines 187-188, without the lock: current_batch is replaced by
\* an empty list.
AP_send_batch_line187 ==
    /\ ap_run["processor"].at = "line187"
    /\ ap_current_batch' = <<>>
    /\ ap_run' = [ap_run EXCEPT !["processor"] = APRunner("loop")]
    /\ UNCHANGED <<ap_next, ap_processed, ap_message_queue, ap_retry_queue, ap_display,
                   ap_message_counter, ap_id, ap_pc, ap_hung, ap_clear, ap_clears>>
    /\ UNCHANGED apOthers

\* handle_force_batch_send, lines 648-652: batch_queue.force_send_batch() is
\* called and waits for the lock.
AP_handle_force_batch_send ==
    /\ ap_run["force"].at = "idle"
    /\ APActive < APMaxActive
    /\ ap_run' = [ap_run EXCEPT !["force"] = APRunner("line197")]
    /\ UNCHANGED <<ap_next, ap_processed, ap_message_queue, ap_current_batch, ap_retry_queue, ap_display,
                   ap_message_counter, ap_id, ap_pc, ap_hung, ap_clear, ap_clears>>
    /\ UNCHANGED apOthers

\* force_send_batch lines 197-198: the lock is taken and "if
\* self.current_batch" tested.
AP_force_send_batch_line197 ==
    /\ ap_run["force"].at = "line197"
    /\ ap_run' = [ap_run EXCEPT !["force"].at =
                                   IF ap_current_batch = <<>> THEN "idle" ELSE "line201"]
    /\ UNCHANGED <<ap_next, ap_processed, ap_message_queue, ap_current_batch, ap_retry_queue, ap_display,
                   ap_message_counter, ap_id, ap_pc, ap_hung, ap_clear, ap_clears>>
    /\ UNCHANGED apOthers

\* force_send_batch lines 199-211: 'messages': self.current_batch.copy() as it
\* is by now (the processor's _send_batch resets it without the lock), and
\* the call of the callback.
AP_force_send_batch_line201 ==
    /\ ap_run["force"].at = "line201"
    /\ ap_run' = [ap_run EXCEPT !["force"] = APCallback("force", ap_current_batch)]
    /\ UNCHANGED <<ap_next, ap_processed, ap_message_queue, ap_current_batch, ap_retry_queue, ap_display,
                   ap_message_counter, ap_id, ap_pc, ap_hung, ap_clear, ap_clears>>
    /\ UNCHANGED apOthers

\* force_send_batch lines 213-216: current_batch is replaced by an empty list
\* and the lock released.
AP_force_send_batch_line213 ==
    /\ ap_run["force"].at = "line213"
    /\ ap_current_batch' = <<>>
    /\ ap_run' = [ap_run EXCEPT !["force"] = APRunner("idle")]
    /\ UNCHANGED <<ap_next, ap_processed, ap_message_queue, ap_retry_queue, ap_display,
                   ap_message_counter, ap_id, ap_pc, ap_hung, ap_clear, ap_clears>>
    /\ UNCHANGED apOthers

\* retry_success_callback: the copy held by the retry queue is marked and
\* added to the batch queue.
AP_retry_success_callback ==
    /\ ~APLocked
    /\ ap_processed < APMaxMsgs
    /\ \E message \in ap_retry_queue :
         /\ ap_retry_queue' = ap_retry_queue \ {message}
         /\ ap_message_queue' = Append(ap_message_queue,
                                       [message EXCEPT !.retry_success = TRUE])
    /\ ap_processed' = ap_processed + 1
    /\ UNCHANGED <<ap_next, ap_current_batch, ap_display, ap_message_counter, ap_id, ap_pc,
                   ap_hung, ap_run, ap_clear, ap_clears>>
    /\ UNCHANGED apOthers

\* retry_failure_callback: the message is reported and dropped.
AP_retry_failure_callback ==
    /\ \E message \in ap_retry_queue : ap_retry_queue' = ap_retry_queue \ {message}
    /\ UNCHANGED <<ap_next, ap_processed, ap_message_queue, ap_current_batch, ap_display,
                   ap_message_counter, ap_id, ap_pc, ap_hung, ap_run, ap_clear, ap_clears>>
    /\ UNCHANGED apOthers

\* The route clear_display, line 841, and DisplayMessageQueue.clear_all line
\* 164: the loop over the four display queues begins.
AP_clear_display ==
    /\ ap_clear.at = "idle"
    /\ ap_clears < APMaxClears
    /\ APActive < APMaxActive
    /\ ap_clear' = [at |-> "line165", queue |-> 1]
    /\ ap_clears' = ap_clears + 1
    /\ UNCHANGED <<ap_next, ap_processed, ap_message_queue, ap_current_batch, ap_retry_queue, ap_display,
                   ap_message_counter, ap_id, ap_pc, ap_hung, ap_run>>
    /\ UNCHANGED apOthers

\* clear_all line 165: queue.clear() of the next display queue.
AP_clear_all_line165 ==
    /\ ap_clear.at = "line165"
    /\ ap_display' = [ap_display EXCEPT ![ap_clear.queue] = <<>>]
    /\ ap_clear' = IF ap_clear.queue < 4 THEN [ap_clear EXCEPT !.queue = @ + 1]
                   ELSE [at |-> "line166", queue |-> 0]
    /\ UNCHANGED <<ap_next, ap_processed, ap_message_queue, ap_current_batch, ap_retry_queue,
                   ap_message_counter, ap_id, ap_pc, ap_hung, ap_run, ap_clears>>
    /\ UNCHANGED apOthers

\* clear_all line 166: self.message_counter = 0; the route then emits the
\* organization and returns.
AP_clear_all_line166 ==
    /\ ap_clear.at = "line166"
    /\ ap_message_counter' = 0
    /\ ap_clear' = APClearIdle
    /\ UNCHANGED <<ap_next, ap_processed, ap_message_queue, ap_current_batch, ap_retry_queue, ap_display,
                   ap_id, ap_pc, ap_hung, ap_run, ap_clears>>
    /\ UNCHANGED apOthers

APInit ==
    /\ ap_next = 0
    /\ ap_processed = 0
    /\ ap_message_queue = <<>>
    /\ ap_current_batch = <<>>
    /\ ap_retry_queue = {}
    /\ ap_display = [p \in 1..4 |-> <<>>]
    /\ ap_message_counter = 0
    /\ ap_id = [o \in APObjects |-> APNoId]
    /\ ap_pc = [h \in APHandlers |-> APIdle]
    /\ ap_hung = {}
    /\ ap_run = [r \in APRunners |-> APRunner(IF r = "processor" THEN "loop" ELSE "idle")]
    /\ ap_clear = APClearIdle
    /\ ap_clears = 0

APNext ==
    \/ \E h \in APHandlers : AP_handle_message(h)
    \/ \E h \in APHandlers : AP_handle_message_line556(h)
    \/ \E h \in APHandlers : AP_handle_message_line565(h)
    \/ AP_batch_processor
    \/ AP_batch_processor_line137
    \/ AP_send_batch
    \/ AP_send_batch_line158
    \/ \E r \in APRunners : AP_add_batch_messages(r)
    \/ \E r \in APRunners : AP_add_batch_messages_line129(r)
    \/ \E r \in APRunners : AP_add_batch_messages_line130(r)
    \/ \E r \in APRunners : AP_add_batch_messages_line133(r)
    \/ AP_send_batch_line187
    \/ AP_handle_force_batch_send
    \/ AP_force_send_batch_line197
    \/ AP_force_send_batch_line201
    \/ AP_force_send_batch_line213
    \/ AP_retry_success_callback
    \/ AP_retry_failure_callback
    \/ AP_clear_display
    \/ AP_clear_all_line165
    \/ AP_clear_all_line166

\* src/app.py, the ChatSocketHandlers server and ChatServer1/app.py are three
\* programs: a behaviour of the ingress is a run of one of them.
INNext ==
    \/ INSocketInit /\ APInit /\ INAppNext
    \/ INAppInit /\ APInit /\ INSocketNext
    \/ INAppInit /\ INSocketInit /\ APNext

(***************************************************************************)
(* Specifications                                                          *)
(***************************************************************************)
Init == PQInit /\ OQInit /\ CBInit /\ BQInit /\ CRInit /\ RQInit /\ INInit /\ APInit

Next ==
    \/ PQNext
    \/ OQNext
    \/ CBNext
    \/ BQNext
    \/ CRNext
    \/ RQNext
    \/ INNext
    \/ APNext

Spec == Init /\ [][Next]_vars

SpecPQ == Init /\ [][PQNext]_vars

SpecOQ == Init /\ [][OQNext]_vars

\* The calls on the way of a message alone: store, mark online, count,
\* deliver and peek.
OQ_CallDelivery(t) ==
    OQ_CallOf(t, {"store_message_for_user", "deliver_offline_messages", "peek_user_messages"})

\* The steps of thread t inside the call it has started.
OQInCall(t) ==
    \/ OQ_store_message_for_user(t)
    \/ OQ_store_message_for_user_line98(t)
    \/ OQ_deliver_offline_messages(t)
    \/ OQ_peek_user_messages(t)
    \/ OQ_get_offline_message_count_line583(t)
    \/ OQ_get_offline_message_count_line586(t)
    \/ OQ_get_offline_message_count_line589(t)
    \/ OQ_get_offline_message_count_line590(t)

OQDeliveryNext ==
    \/ \E t \in OQCallers : OQ_CallDelivery(t)
    \/ \E t \in OQCallers : OQ_set_user_online(t)
    \/ \E t \in OQCallers : OQ_get_offline_message_count(t)
    \/ \E t \in OQCallers : OQInCall(t)
    \/ OQ_Tick

\* A thread that is inside a call is a running thread: its steps are treated
\* fairly.
SpecOQDelivery ==
    /\ Init /\ [][OQDeliveryNext]_vars
    /\ \A t \in OQCallers : WF_vars(OQInCall(t))

\* The OfflineQueue constructed with any of the capacities.
OQConstructedInit ==
    /\ PQInit /\ CBInit /\ BQInit /\ CRInit /\ RQInit /\ INInit /\ APInit
    /\ \E n \in OQConstructorCapacities : OQConstructed(n)

SpecOQConstructed == OQConstructedInit /\ [][OQDeliveryNext]_vars

\* The cleanup thread is a running thread: its steps are treated fairly.
SpecOQFair ==
    /\ Init /\ [][OQNext]_vars
    /\ WF_vars(OQ_cleanup_processor)
    /\ WF_vars(OQ_cleanup_expired_messages(OQCleaner))
    /\ WF_vars(OQ_cleanup_expired_messages_line420(OQCleaner))

SpecCB == Init /\ [][CBNext]_vars

\* The processor is a running thread and the clock advances: both are treated
\* fairly.
SpecCBQuiet == Init /\ [][CBQuietNext]_vars /\ WF_vars(CBProcessor) /\ WF_vars(CB_Tick)

SpecBQ == Init /\ [][BQNext]_vars

\* A started timer thread runs and the clock advances: both are treated fairly.
SpecBQQuiet == Init /\ [][BQQuietNext]_vars /\ WF_vars(BQTimers) /\ WF_vars(BQ_Tick)

SpecCR == Init /\ [][CRNext]_vars

SpecCRQuiet == Init /\ [][CRQuietNext]_vars

SpecRQ == Init /\ [][RQNext]_vars

\* The two RetryQueues constructed with any of the configurations, the
\* ChatServer1 one then running with update_config calls.
RetryConfigInit ==
    PQInit /\ OQInit /\ CBInit /\ BQInit /\ CRConfigInit /\ RQConfigInit /\ INInit /\ APInit

SpecRetryConfig == RetryConfigInit /\ [][CRConfigNext]_vars

SpecIN == Init /\ [][INNext]_vars

SpecAP == Init /\ [][APNext]_vars

\* Every call and thread of the ChatServer1 RetryQueue but clear_queue.
CRNoClearNext ==
    \/ CR_add_failed_message
    \/ CRProcessor
    \/ CR_force_retry_all
    \/ CR_update_config
    \/ CR_export_retry_log
    \/ CR_stop
    \/ CR_Tick

SpecCRNoClear == Init /\ [][CRNoClearNext]_vars

SpecRQQuiet == Init /\ [][RQQuietNext]_vars

(***************************************************************************)
(* C2: every get_next_message returns the queued message with the smallest *)
(* priority number and, among those, the one added earliest; a drain after *)
(* any sequence of adds is in non-decreasing priority with ties in         *)
(* submission order.                                                       *)
(***************************************************************************)
C2_Sorted(s) ==
    \A i, j \in DOMAIN s : i < j =>
        \/ s[i].priority < s[j].priority
        \/ s[i].priority = s[j].priority /\ s[i].counter < s[j].counter

C2_PopHighest ==
    /\ [](C2_Sorted(pq_drained))
    /\ [][ (pq_op' = "get_next_message" /\ priority_queue # <<>>) =>
             /\ pq_ret' \in SeqToSet(priority_queue)
             /\ \A x \in SeqToSet(priority_queue) :
                    \/ pq_ret'.priority < x.priority
                    \/ pq_ret'.priority = x.priority /\ pq_ret'.counter <= x.counter
             /\ SeqToSet(priority_queue') = SeqToSet(priority_queue) \ {pq_ret'}
             /\ Len(priority_queue') = Len(priority_queue) - 1 ]_vars

\* The scenario of the specification: tiers [3,1,2,1,4] drain as [1,1,2,3,4].
C2_Witness ==
    /\ priority_queue = <<>>
    /\ pq_drained = << [priority |-> 1, counter |-> 2], [priority |-> 1, counter |-> 4],
                       [priority |-> 2, counter |-> 3], [priority |-> 3, counter |-> 1],
                       [priority |-> 4, counter |-> 5] >>

(***************************************************************************)
(* C1: every call to store_message_for_user, deliver_offline_messages,     *)
(* clear_user_messages and _cleanup_expired_messages returns: a thread     *)
(* that is inside a call is never left waiting for a lock that will not be *)
(* released (in particular not for the lock it holds itself).              *)
(***************************************************************************)
C1_CallsReturn ==
    \A t \in OQThreads :
        oq_pc[t].at \in {"lock", "update_user_stats"} =>
            \/ oq_lock = 0
            \/ oq_lock # t /\ oq_pc[oq_lock].at # "update_user_stats"

(***************************************************************************)
(* C9: every backlog holds at most max_messages_per_user entries, and a    *)
(* store into a backlog that is at capacity removes exactly the oldest     *)
(* entry and appends the new one: the append of such a store keeps the     *)
(* other entries in their order behind the new last entry, and a store     *)
(* called for a full backlog that does not hold its message yet leads to   *)
(* a backlog whose last entry is that message.                             *)
(***************************************************************************)
OQAtCapacity(u) ==
    /\ u \in DOMAIN user_queues
    /\ Len(user_queues[u].items) >= user_queues[u].maxlen

OQStoreAppends(t) ==
    /\ oq_pc[t].op = "store_message_for_user"
    /\ oq_pc[t].at = "line98"
    /\ oq_pc'[t].at # "line98"

\* The messages of the entries in the backlog of u.
OQHeld(u) ==
    IF u \in DOMAIN user_queues
    THEN {user_queues[u].items[i].original_message : i \in DOMAIN user_queues[u].items}
    ELSE {}

OQNewest(u) == user_queues[u].items[Len(user_queues[u].items)]

C9_BoundedBacklog ==
    /\ [](\A u \in DOMAIN user_queues :
            Len(user_queues[u].items) <= max_messages_per_user)
    /\ [][\A t \in OQCallers :
            (OQStoreAppends(t) /\ OQAtCapacity(oq_pc[t].user))
                => LET before == user_queues[oq_pc[t].user].items
                       after == user_queues'[oq_pc[t].user].items
                   IN  /\ Len(after) = Len(before)
                       /\ SubSeq(after, 1, Len(after) - 1) = Tail(before)
                       /\ after[Len(after)].original_message = oq_pc[t].msg]_vars
    /\ \A t \in OQCallers, u \in OQUsers, m \in OQMessages :
          ( /\ oq_pc[t].op = "store_message_for_user" /\ oq_pc[t].at = "lock"
            /\ oq_pc[t].user = u /\ oq_pc[t].msg = m
            /\ OQAtCapacity(u) /\ OQHeld(u) # {} /\ m \notin OQHeld(u) )
          ~> ( /\ OQHeld(u) # {}
               /\ Len(user_queues[u].items) = max_messages_per_user
               /\ OQNewest(u).original_message = m )

(***************************************************************************)
(* C10: deliver_offline_messages for an online recipient returns exactly   *)
(* the entries of the backlog that have not expired, oldest first, and the *)
(* expired ones leave the backlog and are counted in                       *)
(* total_messages_expired: a delivery that returns has returned and        *)
(* counted just that, and a delivery called for a recipient whose backlog  *)
(* holds a message that cannot expire any more returns that message.       *)
(***************************************************************************)
OQDeliverReturns(t) ==
    /\ oq_pc[t].op = "deliver_offline_messages"
    /\ oq_pc[t].online
    /\ oq_pc'[t].op = "idle"

\* The backlog of u holds message m in an entry that does not expire before
\* the clock stops.
OQKept(u, m) ==
    /\ u \in DOMAIN user_queues
    /\ \E i \in DOMAIN user_queues[u].items :
          /\ user_queues[u].items[i].original_message = m
          /\ user_queues[u].items[i].expiry_timestamp >= OQMaxTime

\* The messages of a list of delivered messages.
OQTexts(value) == {value[i].text : i \in DOMAIN value}

C10_DeliverReturnsBacklog ==
    /\ [][\A t \in OQCallers :
            OQDeliverReturns(t)
                => LET items == QueueOf(user_queues, oq_pc[t].user).items
                   IN  /\ oq_ret'[t].value = DeliveredMessages(NotExpired(items, oq_now))
                       /\ QueueOf(user_queues', oq_pc[t].user).items = <<>>
                       /\ oq_stats'.total_messages_expired
                            = oq_stats.total_messages_expired + Len(Expired(items, oq_now))]_vars
    /\ \A t \in OQCallers, u \in OQUsers, m \in OQMessages :
          ( /\ oq_pc[t].op = "deliver_offline_messages" /\ oq_pc[t].at = "lock"
            /\ oq_pc[t].online /\ oq_pc[t].user = u
            /\ OQKept(u, m) )
          ~> ( /\ oq_ret[t].op = "deliver_offline_messages"
               /\ m \in OQTexts(oq_ret[t].value) )

(***************************************************************************)
(* C3: with the processor thread scheduled fairly and no force_send_batch, *)
(* clear_queue or stop call, every message accepted by add_message is      *)
(* eventually passed to the callback in a batch (after max_wait_time for a *)
(* batch of at least min_batch_size, after 2 x max_wait_time otherwise).   *)
(***************************************************************************)
CBSentMessages == UNION {SeqToSet(cb_sent[i].messages) : i \in DOMAIN cb_sent}

\* The batch holding m is due: a full wait for a batch of at least
\* min_batch_size, the extended wait of 2 x max_wait_time for a smaller one.
CBDue(m) ==
    /\ m \in SeqToSet(current_batch)
    /\ batch_start_time # CBNone
    /\ \/ Len(current_batch) >= min_batch_size /\ cb_now - batch_start_time >= max_wait_time
       \/ cb_now - batch_start_time >= 2 * max_wait_time

C3_EventuallySent ==
    \A m \in 1..CBMaxMsgs : CBDue(m) ~> (m \in CBSentMessages)

(***************************************************************************)
(* C8: under every interleaving of the processor thread with               *)
(* force_send_batch and clear_queue, each accepted message is passed to    *)
(* the callback in at most one batch (here: as long as no invocation of    *)
(* the callback has raised).                                               *)
(***************************************************************************)
CBTimesSent(m) == Cardinality({i \in DOMAIN cb_sent : m \in SeqToSet(cb_sent[i].messages)})

C8_SentAtMostOnce ==
    CBRaises(cb_sent) = 0 => \A m \in 1..CBMaxMsgs : CBTimesSent(m) <= 1

(***************************************************************************)
(* C4: in the timer-based BatchQueue, a batch that holds between 1 and     *)
(* min_batch_size-1 messages when its timer fires is still released later  *)
(* without a further enqueue or force_send_batch call: no accepted message *)
(* stays pending forever.                                                  *)
(***************************************************************************)
BQSentMessages ==
    UNION {{bq_sent[i].messages[j].id : j \in DOMAIN bq_sent[i].messages} : i \in DOMAIN bq_sent}

BQPending == {pending_messages[j].id : j \in DOMAIN pending_messages}

\* The timer of the batch holding m has fired and _timeout_batch_send has
\* returned, finding fewer than min_batch_size messages.
BQTimedOutSmall(m) ==
    /\ m \in BQPending
    /\ Len(pending_messages) < bq_min_batch_size
    /\ batch_timer # BQNoTimer
    /\ bq_timers[batch_timer].state = "done"

C4_SmallBatchReleased ==
    \A m \in 1..BQMaxMsgs : BQTimedOutSmall(m) ~> (m \in BQSentMessages)

(***************************************************************************)
(* C5: under every interleaving of the processor thread with               *)
(* add_failed_message, clear_queue, force_retry_all and update_config, no  *)
(* entry's retry_count exceeds its max_retries, and an entry that has      *)
(* succeeded or permanently failed is in neither deque and is never        *)
(* attempted again.                                                        *)
(***************************************************************************)
CRTerminal(i) == cr_entries[i].succeeded + cr_entries[i].failed > 0

CRQueued == SeqToSet(waiting_deque) \cup SeqToSet(retry_deque)

C5_TerminalStaysTerminal ==
    /\ [](\A i \in DOMAIN cr_entries :
            /\ cr_entries[i].retry_count <= cr_entries[i].max_retries
            /\ CRTerminal(i) => i \notin CRQueued)
    /\ [][\A i \in DOMAIN cr_entries :
            CRTerminal(i) => cr_entries'[i].retry_count = cr_entries[i].retry_count]_vars

(***************************************************************************)
(* C6: a message whose every delivery attempt fails is attempted exactly   *)
(* max_retries times, after which failure_callback is invoked exactly once *)
(* for it and total_messages_failed grows by exactly 1; it is never        *)
(* retried again.                                                          *)
(***************************************************************************)
CRAbandoned == {i \in DOMAIN cr_entries : cr_entries[i].failed > 0}

\* The processor has counted a permanent failure at line 207 and has not yet
\* called failure_callback for it (line 212).
CRFailurePending == IF cr_pc = "line209" THEN 1 ELSE 0

C6_AbandonedOnce ==
    /\ \A i \in DOMAIN cr_entries :
         cr_entries[i].succeeded = 0 =>
            /\ cr_entries[i].failed <= 1
            /\ cr_entries[i].failed = 1 =>
                   cr_entries[i].retry_count = cr_entries[i].max_retries
    /\ (\A i \in DOMAIN cr_entries : cr_entries[i].succeeded = 0) =>
           cr_stats.total_messages_failed = Cardinality(CRAbandoned) + CRFailurePending

(***************************************************************************)
(* C7: with a retry_callback set, a message added by enqueue is, once an   *)
(* attempt on it has finished, in retry_queue (waiting for its next        *)
(* attempt) or in completed_messages (SUCCESS after a callback that        *)
(* returned True, ABANDONED after max_retries failed attempts): it is      *)
(* never absent from both.                                                 *)
(***************************************************************************)
RQAttempted == {m \in DOMAIN rq_msgs : rq_msgs[m].attempts_finished > 0}

C7_NeverLost ==
    \A m \in RQAttempted :
       \/ m \in SeqToSet(retry_queue)
       \/ /\ m \in SeqToSet(completed_messages)
          /\ rq_msgs[m].status \in {"success", "abandoned"}

(***************************************************************************)
(* C11: when a user with stored offline messages that have not expired is  *)
(* marked online through UserManager.set_user_online, those messages are   *)
(* delivered: a set_user_online called for a user whose backlog holds a    *)
(* message that cannot expire any more leads to a delivery summary that    *)
(* holds the message, the message being out of the backlog.                *)
(***************************************************************************)
C11_OnlineDelivers ==
    \A t \in OQCallers, u \in OQUsers, m \in OQMessages :
        ( /\ oq_pc[t].op = "set_user_online" /\ oq_pc[t].at = "line583"
          /\ oq_pc[t].user = u
          /\ OQKept(u, m) )
        ~> ( /\ oq_ret[t].op = "set_user_online"
             /\ m \in OQTexts(oq_ret[t].value)
             /\ m \notin OQHeld(u) )

(***************************************************************************)
(* C12: for an online recipient, deliver_offline_messages followed by      *)
(* peek_user_messages gives an empty list for every limit, and no message  *)
(* is delivered twice: a delivery that returns leaves nothing a peek would *)
(* return and none of the entries it returned in any backlog, and a        *)
(* delivery called for a recipient whose backlog holds a message that      *)
(* cannot expire any more returns, after which a peek returns the empty    *)
(* list.                                                                   *)
(***************************************************************************)
C12_DrainLeavesNothing ==
    /\ [][\A t \in OQCallers :
            OQDeliverReturns(t)
                => /\ \A n \in OQLimits : OQPreviews(oq_pc[t].user, n)' = <<>>
                   /\ \A i \in DOMAIN oq_ret'[t].value :
                         oq_ret'[t].value[i].offline_message_id
                            \notin UNION {EntryIds(user_queues'[v].items) :
                                            v \in DOMAIN user_queues'}]_vars
    /\ \A t \in OQCallers, u \in OQUsers :
          ( /\ oq_pc[t].op = "deliver_offline_messages" /\ oq_pc[t].at = "lock"
            /\ oq_pc[t].online /\ oq_pc[t].user = u
            /\ \E m \in OQMessages : OQKept(u, m) )
          ~> ( /\ oq_pc[t].op = "idle"
               /\ oq_ret[t].op = "deliver_offline_messages"
               /\ \A n \in OQLimits : OQPreviews(u, n) = <<>> )

(***************************************************************************)
(* C13: every batch handed to the send callback, by any release path of    *)
(* either BatchQueue, holds at least 1 and at most max_batch_size messages *)
(* (the max_batch_size in force when it is handed over).                   *)
(***************************************************************************)
CBLastSent == cb_sent'[Len(cb_sent')]

BQLastSent == bq_sent'[Len(bq_sent')]

C13_BatchSizeWithinBounds ==
    [][ /\ cb_sent' # cb_sent =>
             /\ Len(CBLastSent.messages) >= 1
             /\ Len(CBLastSent.messages) <= max_batch_size
        /\ bq_sent' # bq_sent =>
             /\ Len(BQLastSent.messages) >= 1
             /\ Len(BQLastSent.messages) <= bq_max_batch_size ]_vars

(***************************************************************************)
(* C14: whenever the processor thread passes a batch to the callback, one  *)
(* of these held when it decided to send: size >= max_batch_size; size >=  *)
(* min_batch_size and the time since batch_start_time >= max_wait_time; or *)
(* size > 0 and that time >= 2 x max_wait_time. A batch is released in no  *)
(* other case except by force_send_batch.                                  *)
(***************************************************************************)
CBDecided == cb_pc = "line104" /\ cb_pc' = "line137" /\ cb_local'.should_send

CBReleaseCondition(size, elapsed) ==
    \/ size >= max_batch_size
    \/ size >= min_batch_size /\ elapsed >= max_wait_time
    \/ size > 0 /\ elapsed >= 2 * max_wait_time

C14_ReleaseOnlyWhenDue ==
    /\ [][CBDecided =>
            /\ batch_start_time' # CBNone
            /\ CBReleaseCondition(Len(current_batch'), cb_now - batch_start_time')]_vars
    /\ [][cb_sent' # cb_sent =>
            \/ CBLastSent.send_reason = "forced"
            \/ cb_pc = "line180" /\ cb_local.should_send]_vars

\* The processor has passed a batch smaller than min_batch_size to the
\* callback after the extended wait.
C14_Witness ==
    \E i \in DOMAIN cb_sent :
        /\ cb_sent[i].send_reason = "extended_wait_timeout"
        /\ Len(cb_sent[i].messages) = 2

(***************************************************************************)
(* C15: when the callback raises, on every release path of either          *)
(* BatchQueue, the released messages are still removed from the pending    *)
(* batch (batch empty, start time or timer reset), so that a later release *)
(* does not send them again.                                               *)
(***************************************************************************)
C15_RaiseStillReleases ==
    /\ [][(cb_sent' # cb_sent /\ CBLastSent.raised) =>
            \/ cb_pc = "line180" /\ cb_pc' = "line187"
            \/ current_batch' = <<>> /\ batch_start_time' = CBNone]_vars
    /\ [][(cb_pc = "line188" /\ cb_pc' # cb_pc) =>
            (cb_pc' = "loop" /\ current_batch' = <<>> /\ batch_start_time' = CBNone)]_vars
    /\ [][(bq_sent' # bq_sent /\ BQLastSent.raised) =>
            (pending_messages' = <<>> /\ batch_timer' = BQNoTimer)]_vars

(***************************************************************************)
(* C16: force_send_batch passes all accepted but unsent messages (in       *)
(* ChatServer1 those of current_batch and those still in message_queue) to *)
(* the callback with reason 'forced' and leaves nothing pending when it    *)
(* returns; with nothing pending it invokes no callback. (Stated for       *)
(* invocations of the callback that return.)                               *)
(***************************************************************************)
C16_ForceSendsAllPending ==
    /\ [][(cb_sent' # cb_sent /\ CBLastSent.send_reason = "forced" /\ ~CBLastSent.raised) =>
            /\ CBLastSent.messages # <<>>
            /\ SeqToSet(CBLastSent.messages)
                   = SeqToSet(current_batch) \cup SeqToSet(message_queue)]_vars
    /\ [][(cb_caller.at = "line213" /\ cb_caller'.at = "idle") =>
            /\ current_batch' = <<>>
            /\ message_queue' = <<>>]_vars
    /\ [][(bq_sent' # bq_sent /\ BQLastSent.trigger = "forced" /\ ~BQLastSent.raised) =>
            /\ BQLastSent.messages # <<>>
            /\ BQLastSent.messages = pending_messages
            /\ pending_messages' = <<>>]_vars

(***************************************************************************)
(* C17: the wait scheduled before attempt k of a failing message is        *)
(* min(initial_delay x backoff_multiplier^(k-1), max_delay): initial_delay *)
(* before the 1st attempt, and after a failed attempt number retry_count   *)
(* the wait before attempt retry_count + 1 (1, 2, 4 seconds for            *)
(* initial_delay=1, backoff_multiplier=2, max_delay=30).                   *)
(***************************************************************************)
CRExpectedWait(k) == CRMin(initial_delay * CRPower(backoff_multiplier, k - 1), max_delay)

C17_BackoffSchedule ==
    /\ [][Len(cr_entries') > Len(cr_entries) =>
            cr_entries'[Len(cr_entries')].next_retry_time - cr_now = CRExpectedWait(1)]_vars
    /\ [][(cr_pc = "line187" /\ cr_pc' = "line219") =>
            cr_entries'[cr_entry].next_retry_time - cr_now
                = CRExpectedWait(cr_entries'[cr_entry].retry_count + 1)]_vars

(***************************************************************************)
(* C18: under every configuration the constructor and update_config can    *)
(* produce, the backoff delay before jitter does not decrease from one     *)
(* attempt to the next and never exceeds max_delay, in both RetryQueues    *)
(* (retry_count 1, 2, 3, ... in ChatServer1; attempt_count 0, 1, 2, ... in *)
(* src/retry_queue.py).                                                    *)
(***************************************************************************)
C18MaxCount == 4

C18_BackoffMonotoneCapped ==
    /\ \A k \in 1..C18MaxCount :
          /\ calculate_backoff_delay(k) <= calculate_backoff_delay(k + 1)
          /\ calculate_backoff_delay(k) <= max_delay
    /\ \A a \in 0..C18MaxCount :
          /\ RQDelay(a) <= RQDelay(a + 1)
          /\ RQDelay(a) <= rq_max_delay

(***************************************************************************)
(* C19: in both RetryQueues an attempt on a message is made only when the  *)
(* current time is at or past the message's next_retry_time (which         *)
(* force_retry_all rewrites to the time of the call); in particular a      *)
(* newly added message is not attempted before its initial delay is over.  *)
(***************************************************************************)
C19_AttemptOnlyWhenDue ==
    /\ [][(cr_pc = "line153" /\ cr_pc' # cr_pc /\ cr_entry # CRUnbound) =>
            cr_now >= cr_entries[cr_entry].next_retry_time]_vars
    /\ [][(rq_pc = "for" /\ rq_pc' = "report") =>
            rq_now >= rq_msgs[Head(rq_ready)].next_retry_time]_vars

(***************************************************************************)
(* C20: a force_retry_all call that finds entries waiting appends them to  *)
(* retry_deque in their order, sets their next_retry_time to the time of   *)
(* the call, leaves every retry_count and every entry already in           *)
(* retry_deque as it was, and leaves waiting_deque empty.                  *)
(***************************************************************************)
CRForced ==
    /\ cr_pc' = cr_pc
    /\ waiting_deque # <<>>
    /\ waiting_deque' = <<>>
    /\ retry_deque' # <<>>

C20_ForceRetryAllFrame ==
    [][CRForced =>
        /\ retry_deque' = retry_deque \o waiting_deque
        /\ \A i \in SeqToSet(waiting_deque) : cr_entries'[i].next_retry_time = cr_now
        /\ \A i \in DOMAIN cr_entries : cr_entries'[i].retry_count = cr_entries[i].retry_count
        /\ \A i \in SeqToSet(retry_deque) : cr_entries'[i] = cr_entries[i]]_vars

(***************************************************************************)
(* C21: when _cleanup_expired_messages completes, no backlog holds an      *)
(* entry past its expiry at the time of the sweep, the other entries are   *)
(* kept in their order, no recipient with an empty backlog is left in      *)
(* user_queues, and total_messages_expired has grown by the number of      *)
(* entries removed.                                                        *)
(***************************************************************************)
OQEntries(queues) == UNION {EntryIds(queues[u].items) : u \in DOMAIN queues}

\* Thread t carries out lines 380-417 of the sweep.
OQSweeps(t) ==
    /\ oq_pc[t].op \in {"_cleanup_expired_messages", "force_cleanup"}
    /\ oq_pc[t].at \in {"lock", "line504"}
    /\ oq_pc'[t].at = "line420"

\* The sweep of thread t returns.
OQSweepCompletes(t) ==
    /\ oq_pc[t].at = "line420"
    /\ oq_pc'[t].at \notin {"line420", "update_user_stats"}

C21_SweepRemovesExpired ==
    /\ [][\A t \in OQThreads :
            OQSweeps(t)
                => /\ \A u \in DOMAIN user_queues' :
                         user_queues'[u].items = NotExpired(user_queues[u].items, oq_now)
                   /\ \A v \in DOMAIN user_queues :
                         NotExpired(user_queues[v].items, oq_now) # <<>>
                            => v \in DOMAIN user_queues'
                   /\ oq_pc'[t].total_expired
                         = Cardinality(OQEntries(user_queues) \ OQEntries(user_queues'))]_vars
    /\ [][\A t \in OQThreads :
            (oq_pc[t].at = "line420" /\ oq_pc'[t].at # "line420")
                => oq_stats'.total_messages_expired
                     = oq_stats.total_messages_expired + oq_pc[t].total_expired]_vars
    /\ [][\A t \in OQThreads :
            OQSweepCompletes(t)
                => \A u \in DOMAIN user_queues' :
                      /\ user_queues'[u].items # <<>>
                      /\ Expired(user_queues'[u].items, oq_pc[t].current_time) = <<>>]_vars

(***************************************************************************)
(* C22: in src/batch_queue.py the enqueue that brings the pending count to *)
(* max_batch_size releases the batch before it returns: the callback gets  *)
(* exactly max_batch_size messages (the pending ones and the new one) with *)
(* trigger 'size_limit', pending_messages is empty afterwards and no       *)
(* timeout timer is left to fire.                                          *)
(***************************************************************************)
BQEnqueued == bq_next' = bq_next + 1

C22_FullBatchReleased ==
    [][(BQEnqueued /\ Len(pending_messages) + 1 = bq_max_batch_size) =>
        /\ Len(bq_sent') = Len(bq_sent) + 1
        /\ BQLastSent.trigger = "size_limit"
        /\ Len(BQLastSent.messages) = bq_max_batch_size
        /\ BQLastSent.batch_size = bq_max_batch_size
        /\ SubSeq(BQLastSent.messages, 1, Len(pending_messages)) = pending_messages
        /\ BQLastSent.messages[bq_max_batch_size].id = bq_next'
        /\ pending_messages' = <<>>
        /\ batch_timer' = BQNoTimer
        /\ \A k \in DOMAIN bq_timers' : bq_timers'[k].state # "armed"]_vars

C22_Witness ==
    /\ bq_ret.op = "enqueue"
    /\ bq_sent # <<>>
    /\ bq_sent[Len(bq_sent)].trigger = "size_limit"
    /\ Len(bq_sent[Len(bq_sent)].messages) = bq_max_batch_size
    /\ pending_messages = <<>>
    /\ \E k \in DOMAIN bq_timers : bq_timers[k].state = "cancelled"

(***************************************************************************)
(* C23: the batches a BatchQueue passes to its callback list the messages  *)
(* in the order they were accepted: inside a batch the messages are in     *)
(* acceptance order, and every message of an earlier batch was accepted    *)
(* before every message of a later batch. Messages are numbered in the     *)
(* order add_message / enqueue accepted them.                              *)
(***************************************************************************)
CBInOrder(ids) == \A i, j \in DOMAIN ids : i < j => ids[i] < ids[j]

BQIds(messages) == [i \in DOMAIN messages |-> messages[i].id]

C23_BatchesInAcceptanceOrder ==
    /\ \A b \in DOMAIN cb_sent : CBInOrder(cb_sent[b].messages)
    /\ \A b, c \in DOMAIN cb_sent :
          b < c => \A i \in DOMAIN cb_sent[b].messages, j \in DOMAIN cb_sent[c].messages :
                      cb_sent[b].messages[i] < cb_sent[c].messages[j]
    /\ \A b \in DOMAIN bq_sent : CBInOrder(BQIds(bq_sent[b].messages))
    /\ \A b, c \in DOMAIN bq_sent :
          b < c => \A i \in DOMAIN bq_sent[b].messages, j \in DOMAIN bq_sent[c].messages :
                      bq_sent[b].messages[i].id < bq_sent[c].messages[j].id

(***************************************************************************)
(* C24: an update_config call that carries an invalid value (here          *)
(* max_retries < 1, initial_delay <= 0 or backoff_multiplier < 1 given to  *)
(* the ChatServer1 RetryQueue) is rejected: the step it makes leaves the   *)
(* configuration and the queue contents as they were.                      *)
(***************************************************************************)
CRInvalidUpdate ==
    /\ \E r \in CRRetries \cup {CRNone}, d \in CRDelays \cup {CRNone},
          md \in CRMaxDelays \cup {CRNone}, b \in CRMultipliers \cup {CRNone} :
         /\ \/ r # CRNone /\ r < 1
            \/ d # CRNone /\ d <= 0
            \/ b # CRNone /\ b < 1
         /\ CRUpdateConfig(r, d, md, b)
    /\ UNCHANGED <<retry_deque, waiting_deque, cr_entries, cr_stats, cr_running, cr_pc,
                   cr_entry, cr_current_time, cr_now>>

C24_InvalidConfigRejected ==
    [][CRInvalidUpdate =>
        UNCHANGED <<max_retries, initial_delay, max_delay, backoff_multiplier>>]_vars

(***************************************************************************)
(* C25: a query that reads a recipient's backlog (get_offline_message_count *)
(* as it is in effect, peek_user_messages) reads it with the component     *)
(* lock held: it never returns a value read while another thread holds the *)
(* lock, that is while a store, a delivery or a sweep is in progress.      *)
(***************************************************************************)
OQQueries == {"get_offline_message_count", "peek_user_messages"}

C25_QueriesReadUnderLock ==
    [][\A t \in OQCallers :
          (oq_ret'[t] # oq_ret[t] /\ oq_ret'[t].op \in OQQueries) => oq_lock \in {0, t}]_vars

(***************************************************************************)
(* C26: after stop() the component's background worker eventually leaves   *)
(* its loop (a sweep, attempt or release in progress being completed       *)
(* first), and a worker that has left its loop does nothing more.          *)
(***************************************************************************)
C26_WorkersExitAfterStop ==
    /\ (~oq_running) ~> (oq_pc[OQCleaner].op = "exited")
    /\ (~cb_running) ~> (cb_pc = "exited")
    /\ (~cr_running) ~> (cr_pc = "stopped")
    /\ rq_stop ~> (rq_pc = "stopped")
    /\ [][oq_pc[OQCleaner].op = "exited" => oq_pc'[OQCleaner].op = "exited"]_vars
    /\ [][cb_pc = "exited" =>
            (cb_pc' = "exited" /\ (cb_sent' = cb_sent \/ CBLastSent.send_reason = "forced"))]_vars
    /\ [][cr_pc = "stopped" =>
            /\ cr_pc' = "stopped"
            /\ cr_stats'.total_retries_attempted = cr_stats.total_retries_attempted]_vars
    /\ [][rq_pc = "stopped" => (rq_pc' = "stopped" /\ rq_ready' = rq_ready)]_vars

(***************************************************************************)
(* C27: every message the spam detector flags is enqueued with priority 4  *)
(* whatever manual priority came with it, a message that is not flagged    *)
(* and comes with a manual priority 1..4 is enqueued with that priority,   *)
(* and a queue holds the message and passes it on with the priority it was *)
(* enqueued with: in the deques of src/app.py and what is broadcast of     *)
(* them, in the heap of the handlers' message system, in what              *)
(* get_next_message returns and in the 'new_message' emitted for it, in    *)
(* the batch, retry and display queues of ChatServer1.                     *)
(***************************************************************************)
INPriorityApplied(is_spam, manual, priority) ==
    /\ is_spam => priority = 4
    /\ (~is_spam /\ manual \in {1, 2, 3, 4}) => priority = manual

INAppQueued == UNION {SeqToSet(in_queues[p]) : p \in 1..4}

INOrganized == <<in_organized.urgent, in_organized.high, in_organized.normal,
                 in_organized.low>>

APQueued == SeqToSet(ap_message_queue) \cup SeqToSet(ap_current_batch) \cup ap_retry_queue

C27_SpamForcesLowest ==
    /\ [](\A p \in 1..4 : \A m \in SeqToSet(in_queues[p]) \cup SeqToSet(INOrganized[p]) :
            m.priority = p /\ INPriorityApplied(m.is_spam, m.manual, m.priority))
    /\ [](\A e \in SeqToSet(in_priority_queue) :
            /\ e.priority = e.message_obj.priority
            /\ INPriorityApplied(e.message_obj.flagged, e.message_obj.manual, e.priority))
    /\ [](\A m \in {in_out.message} \cup {in_pc[c].message_obj : c \in INCalls}
                  \cup {in_pc[c].formatted_msg.message : c \in INCalls} :
            INPriorityApplied(m.flagged, m.manual, m.priority))
    /\ [](\A m \in APQueued : INPriorityApplied(m.is_spam, m.manual, m.priority))
    /\ [](\A p \in 1..4 : \A m \in SeqToSet(ap_display[p]) :
            m.priority = p /\ INPriorityApplied(m.is_spam, m.manual, m.priority))

(***************************************************************************)
(* C28: ChatServer1 BatchQueue: after every release of a batch, by the     *)
(* processor's _send_batch or by force_send_batch,                         *)
(* stats.total_batches_sent is the number of batches passed to the         *)
(* callback so far and stats.average_batch_size is the number of messages  *)
(* in those batches divided by that number.                                *)
(***************************************************************************)
RECURSIVE CBTotalMessages(_)
CBTotalMessages(sent) ==
    IF sent = <<>> THEN 0
    ELSE sent[Len(sent)].batch_size + CBTotalMessages(SubSeq(sent, 1, Len(sent) - 1))

C28_BatchStatsMatchReleases ==
    [][Len(cb_sent') = Len(cb_sent) + 1
       => ( /\ cb_stats'.total_batches_sent = Len(cb_sent')
            /\ cb_stats'.average_batch_size * Len(cb_sent') = CBTotalMessages(cb_sent') )]_vars

(***************************************************************************)
(* C29: message_counter grows by exactly 1 on every add_message and every  *)
(* create_offline_message and is never lowered except by clear_all, which  *)
(* sets it to 0; the message add_message puts in the queue carries a       *)
(* counter greater than that of every message queued, delivered or kept in *)
(* the history since the last reset.                                       *)
(***************************************************************************)
PQCounters(items) == {items[i].counter : i \in DOMAIN items}

PQNumbered ==
    pq_op' \in {"add_message", "create_offline_message"}

C29_CounterMonotone ==
    /\ [][PQNumbered => message_counter' = message_counter + 1]_vars
    /\ [][message_counter' < message_counter
          => (pq_op' = "clear_all" /\ message_counter' = 0)]_vars
    /\ [][~PQNumbered => message_counter' <= message_counter]_vars
    /\ [][pq_op' = "add_message"
          => ( /\ message_counter' \in PQCounters(priority_queue')
               /\ \A c \in PQCounters(priority_queue) \cup PQCounters(history)
                             \cup PQCounters(pq_drained) : c < message_counter' )]_vars
    /\ [](\A i, j \in DOMAIN history : i < j => history[i].counter < history[j].counter)

C29_Witness ==
    /\ pq_op = "add_message"
    /\ message_counter = 3
    /\ PQCounters(priority_queue) = {1, 3}
    /\ PQCounters(history) = {1, 3}

(***************************************************************************)
(* C30: on an empty queue get_next_message and peek_next_message return    *)
(* None and leave the queue, the history and the counter as they are; on a *)
(* queue that is not empty peek_next_message returns the message the next  *)
(* get_next_message returns and removes nothing. Neither call can fail to  *)
(* return.                                                                 *)
(***************************************************************************)
PQUntouched == UNCHANGED <<priority_queue, history, message_counter>>

C30_EmptyQueueReads ==
    /\ [](ENABLED PQ_get_next_message /\ ENABLED PQ_peek_next_message)
    /\ [][(pq_op' \in {"get_next_message", "peek_next_message"} /\ priority_queue = <<>>)
          => (pq_ret' = NoMessage /\ PQUntouched)]_vars
    /\ [][(pq_op' = "peek_next_message" /\ priority_queue # <<>>)
          => (pq_ret' = HeapPop(priority_queue)[1] /\ PQUntouched)]_vars
    /\ [][(pq_op = "peek_next_message" /\ pq_ret # NoMessage /\ pq_op' = "get_next_message")
          => pq_ret' = pq_ret]_vars

C30_Witness ==
    /\ pq_op = "get_next_message"
    /\ pq_ret = NoMessage
    /\ priority_queue = <<>>
    /\ Len(history) = 2
    /\ message_counter = 2

(***************************************************************************)
(* C31: peek_user_messages(recipient, limit) changes nothing: when it      *)
(* returns, the backlogs (with their delivery_attempts), the metadata, the *)
(* statistics and the configuration are as before, and the value is at     *)
(* most limit entries, the oldest non-expired ones of the recipient's      *)
(* backlog in stored order.                                                *)
(***************************************************************************)
OQPeekReturns(t) ==
    /\ oq_pc[t].op = "peek_user_messages"
    /\ oq_pc'[t].op = "idle"

C32_TimeoutOnlyAfterWait ==
    \A i \in DOMAIN bq_sent :
        bq_sent[i].trigger = "timeout"
            => bq_sent[i].at - bq_sent[i].messages[1].batch_enqueue_time >= timeout_seconds

(***************************************************************************)
(* C33: ChatServer1 BatchQueue.stop() sends what remains: when stop()      *)
(* returns, nothing is left in message_queue or current_batch, and every   *)
(* message that was waiting there at the call is in a batch passed to the  *)
(* callback.                                                               *)
(***************************************************************************)
CBSentIds == UNION {SeqToSet(cb_sent'[i].messages) : i \in DOMAIN cb_sent'}

C33_StopSendsRemaining ==
    [][(cb_caller.op = "stop" /\ cb_caller'.op = "idle")
         => ( /\ message_queue' = <<>>
              /\ current_batch' = <<>>
              /\ SeqToSet(message_queue) \cup SeqToSet(current_batch) \subseteq CBSentIds )]_vars

C35_ClearedStaysEmpty ==
    cr_cleared => (retry_deque = <<>> /\ waiting_deque = <<>>)

(***************************************************************************)
(* C36: in the ChatServer1 RetryQueue, as long as clear_queue is not       *)
(* called, every entry added is in exactly one of: waiting_deque,          *)
(* retry_deque, being attempted by the processor, succeeded, permanently   *)
(* failed; so total_messages_added = total_messages_succeeded +            *)
(* total_messages_failed + len(waiting_deque) + len(retry_deque) + (1 if   *)
(* an attempt is in progress, else 0).                                     *)
(***************************************************************************)
CRInProgress == cr_pc \in {"line153", "line187", "line219"}

\* The outcome of the attempt is in the statistics (lines 192, 207) and the
\* callback that reports it has not been called yet (lines 201, 212).
CRRecorded == cr_pc \in {"line198", "line209"}

CRPlaces(i) ==
    Cardinality({k \in DOMAIN waiting_deque : waiting_deque[k] = i})
    + Cardinality({k \in DOMAIN retry_deque : retry_deque[k] = i})
    + (IF (CRInProgress \/ CRRecorded) /\ cr_entry = i THEN 1 ELSE 0)
    + cr_entries[i].succeeded
    + cr_entries[i].failed

C36_EntriesConserved ==
    /\ \A i \in DOMAIN cr_entries : CRPlaces(i) = 1
    /\ cr_stats.total_messages_added = Len(cr_entries)
    /\ cr_stats.total_messages_added =
           cr_stats.total_messages_succeeded + cr_stats.total_messages_failed
           + Len(waiting_deque) + Len(retry_deque) + (IF CRInProgress THEN 1 ELSE 0)

C36_Witness ==
    /\ cr_pc = "line219"
    /\ cr_stats.total_messages_added = 2
    /\ cr_stats.total_messages_succeeded + cr_stats.total_messages_failed = 1

(***************************************************************************)
(* C37: in ChatServer1/app.py each message handle_message accepts is added *)
(* to the batch queue exactly once and is in the display queue at most     *)
(* once, also when its simulated delivery fails and a retry of it          *)
(* succeeds.                                                               *)
(***************************************************************************)
APCopies(s, n) == Cardinality({i \in DOMAIN s : s[i].msg = n})

APDisplayed(n) ==
    APCopies(ap_display[1], n) + APCopies(ap_display[2], n)
    + APCopies(ap_display[3], n) + APCopies(ap_display[4], n)

C37_DisplayedAtMostOnce ==
    /\ [][\A n \in 1..ap_next' :
            APCopies(ap_message_queue', n) > APCopies(ap_message_queue, n)
                => (n = ap_next' /\ ap_next' = ap_next + 1)]_vars
    /\ [](\A n \in 1..ap_next : APDisplayed(n) <= 1)

(***************************************************************************)
(* C38: message_metadata holds an entry for a message_id if and only if a  *)
(* stored entry with that message_id is in some recipient's backlog: the   *)
(* ids of message_metadata are the ids of the entries in the backlogs.     *)
(***************************************************************************)
C38_MetadataMatchesBacklogs ==
    message_metadata = OQEntries(user_queues)

(***************************************************************************)
(* C39: after any sequence of ChatServer1 BatchQueue.update_config calls,  *)
(* each with any subset of its three parameters given,                     *)
(* 1 <= min_batch_size <= max_batch_size.                                  *)
(***************************************************************************)
C39_BatchSizesOrdered ==
    1 <= min_batch_size /\ min_batch_size <= max_batch_size

(***************************************************************************)
(* C40: no two entries stored in OfflineQueue carry the same message_id:   *)
(* the entries of all backlogs have pairwise different ids, and the id of  *)
(* an entry that a store appends is the id of no entry held in a backlog   *)
(* at that moment.                                                         *)
(***************************************************************************)
OQSlots == {<<u, i>> : u \in DOMAIN user_queues, i \in 1..OQMinCapacity}

====
